---- MODULE Spec2Model ----
EXTENDS Naturals, Integers, Sequences, FiniteSets, TLC

(***************************************************************************)
(* Doxygen comment generator: the line scanners of HeaderDoxygenGenerator  *)
(* and CppSourceGenerator, with the matchers and comment synthesizers      *)
(* they call.                                                              *)
(*                                                                         *)
(* Text.  A line is a sequence of lexemes (strings); the text of the line  *)
(* is the concatenation of its lexemes.  A lexeme is a whitespace run      *)
(* (WsTok), a punctuation lexeme (PunctTok) or a maximal run of word       *)
(* characters (everything else, regex \w+).  Lines read from a file end    *)
(* with the lexeme "\n".  An element of the output list is again a         *)
(* sequence of lexemes.  Indices are 1-based: index k here is index k-1    *)
(* of the Python lists.                                                    *)
(***************************************************************************)

WsTok == {" ", "  ", "   ", "    ", "\n"}

PunctTok == {"{", "}", "(", ")", ";", ",", "&", "=", "~", ":", "<", ">", "*",
             "#", "\"", ".", "@", "-", "/", "[", "]", "!",
             "/**", "*/", "//", "///", "/*!"}

IsWs(t) == t \in WsTok

IsWord(t) == t \notin WsTok /\ t \notin PunctTok

\* Word lexemes that begin with a digit (not matched by [a-zA-Z_]).
DigitWords == {"0", "1", "2", "10"}

IsIdent(t) == IsWord(t) /\ t \notin DigitWords

\* Lexemes of the character class [\w:<>].
IsRunTok(t) == IsWord(t) \/ t \in {":", "<", ">"}

\* Substring tables over the word lexemes of the model's vocabulary.
ContainsConst == {"const", "constexpr"}
ContainsStatic == {"static"}
ContainsNoexcept == {"noexcept"}
ContainsConstexpr == {"constexpr"}
ContainsMutable == {"mutable"}
EndsWithThrow == {"throw"}
EndsWithOperator == {"operator"}

Min(a, b) == IF a < b THEN a ELSE b

\* Smallest index k >= from with P(s[k]); Len(s)+1 when there is none.
First(s, P(_), from) ==
    IF \E k \in from..Len(s) : P(s[k])
    THEN CHOOSE k \in from..Len(s) : P(s[k]) /\ \A j \in from..(k-1) : ~P(s[j])
    ELSE Len(s) + 1

\* Largest index k with P(s[k]); 0 when there is none.
Last(s, P(_)) ==
    IF \E k \in 1..Len(s) : P(s[k])
    THEN CHOOSE k \in 1..Len(s) : P(s[k]) /\ \A j \in (k+1)..Len(s) : ~P(s[j])
    ELSE 0

\* Smallest index k in a..b with P(k); b + 1 when there is none.
FirstIndex(a, b, P(_)) ==
    IF \E k \in a..b : P(k)
    THEN CHOOSE k \in a..b : P(k) /\ \A j \in a..(k-1) : ~P(j)
    ELSE b + 1

NotWs(t) == ~IsWs(t)

\* str.strip(), str.lstrip(), str.rstrip()
strip(s) ==
    LET a == First(s, NotWs, 1)
        b == Last(s, NotWs)
    IN  IF b = 0 THEN <<>> ELSE SubSeq(s, a, b)

lstrip(s) == SubSeq(s, First(s, NotWs, 1), Len(s))

rstrip(s) == SubSeq(s, 1, Last(s, NotWs))

\* `c in s` for a one-lexeme string c, and s.count(c)
Has(s, c) == \E k \in 1..Len(s) : s[k] = c

count(s, c) == Cardinality({k \in 1..Len(s) : s[k] = c})

\* s.index(c) for a lexeme that occurs
IndexOf(s, c) == CHOOSE k \in 1..Len(s) : s[k] = c /\ \A j \in 1..(k-1) : s[j] # c

\* '*/' in s: the lexeme itself, or a lexeme ending in * followed by one
\* beginning with /.
HasCommentEnd(s) ==
    \/ Has(s, "*/")
    \/ \E k \in 1..(Len(s) - 1) :
          /\ s[k] \in {"*", "/**"}
          /\ s[k+1] \in {"/", "//", "///", "/**", "/*!", "*/"}

\* stripped.startswith('/**') or .startswith('///') or .startswith('/*!')
StartsDocComment(st) == st # <<>> /\ st[1] \in {"/**", "///", "/*!"}

\* next_line.startswith('//') or next_line.startswith('/*')
\* (the text "/*" is the lexeme "/**" or "/*!", or "/" followed by a lexeme
\* that begins with "*")
StartsAnyComment(st) ==
    /\ st # <<>>
    /\ \/ st[1] \in {"//", "///", "/**", "/*!"}
       \/ Len(st) >= 2 /\ st[1] = "/" /\ st[2] \in {"*", "*/"}

\* stripped.startswith('//') or stripped.startswith('#')
StartsLineCommentOrHash(st) == st # <<>> /\ st[1] \in {"//", "///", "#"}

\* Index of the first non-whitespace lexeme at or after k (Len(s)+1 if none).
SkipWs(s, k) == First(s, NotWs, k)

\* s.split(','): the pieces between the "," lexemes, in order.
RECURSIVE SplitComma(_)
SplitComma(s) ==
    IF ~Has(s, ",") THEN <<s>>
    ELSE LET k == IndexOf(s, ",")
         IN  <<SubSeq(s, 1, k - 1)>> \o SplitComma(SubSeq(s, k + 1, Len(s)))

\* Sequence filter / map helpers.
RECURSIVE NonEmptyOnly(_)
NonEmptyOnly(ss) ==
    IF ss = <<>> THEN <<>>
    ELSE (IF Head(ss) = <<>> THEN <<>> ELSE <<Head(ss)>>) \o NonEmptyOnly(Tail(ss))

StripEach(ss) == [k \in 1..Len(ss) |-> strip(ss[k])]

RECURSIVE Flatten(_)
Flatten(ss) == IF ss = <<>> THEN <<>> ELSE Head(ss) \o Flatten(Tail(ss))


(***************************************************************************)
(* Declaration matchers (HeaderDoxygenGenerator._match_function and        *)
(* _match_variable).  A result is a record with field ok; when ok is TRUE  *)
(* it carries the descriptor fields and end_idx.  None is the empty        *)
(* string "" for current_class / current_namespace.                        *)
(***************************************************************************)

None == ""

NoMatch == [ok |-> FALSE]

HasTerminator(l) == Has(l, ";") \/ Has(l, "{")

\* The joining loop of _match_function, from the state (end_idx, full_decl):
\*   while end_idx < len(lines) and ';' not in full_decl and '{' not in full_decl:
\*       end_idx += 1
\*       if end_idx < len(lines): full_decl += ' ' + lines[end_idx].strip()
\* Lines are numbered from 1, so the loop runs while end_idx <= Len(lines).
RECURSIVE FunctionJoinLoop(_, _, _)
FunctionJoinLoop(lines, end_idx, full_decl) ==
    IF end_idx <= Len(lines) /\ ~HasTerminator(full_decl)
    THEN FunctionJoinLoop(lines, end_idx + 1,
                          IF end_idx + 1 <= Len(lines)
                          THEN full_decl \o <<" ">> \o strip(lines[end_idx + 1])
                          ELSE full_decl)
    ELSE [end_idx |-> end_idx, full_decl |-> full_decl]

RECURSIVE FunctionJoinLoop_SemicolonOnly(_, _, _)
FunctionJoinLoop_SemicolonOnly(lines_, end_idx_, full_decl_) ==
    IF end_idx_ <= Len(lines_) /\ ~Has(full_decl_, ";")
    THEN FunctionJoinLoop_SemicolonOnly(lines_, end_idx_ + 1,
                          IF end_idx_ + 1 <= Len(lines_)
                          THEN full_decl_ \o <<" ">> \o strip(lines_[end_idx_ + 1])
                          ELSE full_decl_)
    ELSE [end_idx |-> end_idx_, full_decl |-> full_decl_]

FunctionJoinEnd_SemicolonOnly(lines_, start_idx_) ==
    FunctionJoinLoop_SemicolonOnly(lines_, start_idx_, strip(lines_[start_idx_])).end_idx

\* end_idx when the joining loop of _match_function, started with
\* full_decl = line and end_idx = start_idx, has stopped.
FunctionJoinEnd(lines, start_idx) ==
    FunctionJoinLoop(lines, start_idx, strip(lines[start_idx])).end_idx

\* full_decl when that loop has stopped.
FunctionJoinDecl(lines, start_idx) ==
    FunctionJoinLoop(lines, start_idx, strip(lines[start_idx])).full_decl

\* The stripped lines start_idx..e joined by single spaces.
RECURSIVE JoinFunction(_, _, _)
JoinFunction(lines, start_idx, e) ==
    IF e = start_idx THEN strip(lines[start_idx])
    ELSE JoinFunction(lines, start_idx, e - 1) \o <<" ">> \o strip(lines[e])

\* full_decl[:full_decl.index('{')].strip(), else the same with ';'
CutDecl(full) ==
    IF Has(full, "{") THEN strip(SubSeq(full, 1, IndexOf(full, "{") - 1))
    ELSE strip(SubSeq(full, 1, IndexOf(full, ";") - 1))

\* 'operator=' in full_decl
HasOperatorEq(fd) ==
    \E k \in 1..(Len(fd) - 1) : fd[k] \in EndsWithOperator /\ fd[k+1] = "="

\* re.search(r'operator\s*=\s*\((const\s+C\s*&|C\s*&&)', full_decl)
AssignmentShape(fd, cls) ==
    LET Copy(a) == /\ a + 2 <= Len(fd)
                   /\ fd[a] = "const" /\ IsWs(fd[a+1])
                   /\ LET Ref(c) == LET m == SkipWs(fd, c + 1)
                                    IN  m <= Len(fd) /\ fd[c] = cls /\ fd[m] = "&"
                      IN  Ref(SkipWs(fd, a + 1))
        Move(a) == /\ a <= Len(fd) /\ fd[a] = cls
                   /\ LET m == SkipWs(fd, a + 1)
                      IN  m + 1 <= Len(fd) /\ fd[m] = "&" /\ fd[m+1] = "&"
        Open(e, p) == /\ p <= Len(fd) /\ fd[e] = "=" /\ fd[p] = "("
                      /\ SkipWs(fd, p + 1) = p + 1
                      /\ (Copy(p + 1) \/ Move(p + 1))
        After(e) == Open(e, SkipWs(fd, e + 1))
    IN  \E k \in 1..Len(fd) : fd[k] \in EndsWithOperator /\ After(SkipWs(fd, k + 1))

Keywords5 == {"virtual", "static", "inline", "explicit", "constexpr"}

\* The text before the name must be (?:[\w:<>]+\s+)* : empty, or runs of
\* [\w:<>] lexemes each followed by whitespace.
IsPrefixRuns(r) ==
    \/ r = <<>>
    \/ /\ IsWs(r[Len(r)])
       /\ ~IsWs(r[1])
       /\ \A k \in 1..Len(r) : IsRunTok(r[k]) \/ IsWs(r[k])

IsLParen(t) == t = "("
IsRParen(t) == t = ")"

\* The function pattern, re.match(pattern, full_decl).  Everything after the
\* closing parenthesis is optional, so the match is decided by the text up to
\* the first '(' and the presence of a ')' after it.  Result: ok, the index
\* name_at where the name starts, the name lexemes and the parameter text.
FunctionPattern(fd) ==
    LET Named(pre, n, st, params) ==
            IF IsPrefixRuns(SubSeq(pre, 1, st - 1))
            THEN [ok |-> TRUE, name_at |-> st, name |-> SubSeq(pre, st, n),
                  params |-> params]
            ELSE NoMatch
        Before(pre, n, params) ==
            IF n = 0 THEN NoMatch
            ELSE IF IsWord(pre[n])
            THEN Named(pre, n, IF n > 1 /\ pre[n-1] = "~" THEN n - 1 ELSE n, params)
            ELSE IF n > 1 /\ pre[n] = "=" /\ pre[n-1] = "operator"
                      /\ IsPrefixRuns(SubSeq(pre, 1, n - 2))
            THEN [ok |-> TRUE, name_at |-> n - 1, name |-> <<"operator", "=">>,
                  params |-> params]
            ELSE NoMatch
        Prefix(pre, params) == Before(pre, Len(pre), params)
        Parens(p, q) ==
            IF p > Len(fd) \/ q > Len(fd) THEN NoMatch
            ELSE Prefix(rstrip(SubSeq(fd, 1, p - 1)), SubSeq(fd, p + 1, q - 1))
        Open(p) == Parens(p, First(fd, IsRParen, p + 1))
    IN  Open(First(fd, IsLParen, 1))

\* Number of lexemes of r taken by the leading (?:(?:virtual|...)\s+)* group.
RECURSIVE LeadingKeywords(_, _)
LeadingKeywords(r, k) ==
    IF k + 1 <= Len(r) /\ r[k] \in Keywords5 /\ IsWs(r[k+1])
    THEN LeadingKeywords(r, SkipWs(r, k + 1))
    ELSE k - 1

\* ret_type_match.group(1).strip(): the text between the leading keywords
\* and the name.
ReturnTypeOf(fd, name_at) ==
    LET r == SubSeq(fd, 1, name_at - 1)
    IN  strip(SubSeq(r, LeadingKeywords(r, 1) + 1, Len(r)))

\* p = re.sub(r'\s*=\s*.*$', '', p)
StripDefault(p) ==
    IF Has(p, "=") THEN rstrip(SubSeq(p, 1, IndexOf(p, "=") - 1)) ELSE p

\* A whitespace lexeme of spaces with its last space removed.
ChopSpace(t) ==
    CASE t = " " -> <<>>
      [] t = "  " -> <<" ">>
      [] t = "   " -> <<"  ">>
      [] t = "    " -> <<"   ">>

IsSpaces(t) == t \in {" ", "  ", "   ", "    "}

\* parts = p.rsplit(' ', 1); (param_type, param_name)
SplitParam(p) ==
    LET k == Last(p, IsSpaces)
    IN  IF k = 0 THEN [type |-> p, name |-> <<>>]
        ELSE [type |-> SubSeq(p, 1, k - 1) \o ChopSpace(p[k]),
              name |-> SubSeq(p, k + 1, Len(p))]

\* The parameter list: split on ',', strip, drop empty pieces, strip the
\* default value, split type from name.
ParseParams(params) ==
    LET ps == NonEmptyOnly(StripEach(SplitComma(params)))
    IN  [k \in 1..Len(ps) |-> SplitParam(StripDefault(ps[k]))]

\* throw_match = re.search(r'throw\s*\((.*?)\)', full_decl); the listed types
ThrowAt(fd, k) ==
    LET Open(p) == p <= Len(fd) /\ fd[p] = "(" /\ First(fd, IsRParen, p + 1) <= Len(fd)
    IN  fd[k] \in EndsWithThrow /\ Open(SkipWs(fd, k + 1))

ThrowSpec(fd) ==
    LET IsThrow(k) == ThrowAt(fd, k)
        Listed(p) ==
            NonEmptyOnly(StripEach(SplitComma(
                SubSeq(fd, p + 1, First(fd, IsRParen, p + 1) - 1))))
        At(k) == IF k > Len(fd) THEN <<>> ELSE Listed(SkipWs(fd, k + 1))
    IN  At(FirstIndex(1, Len(fd), IsThrow))

\* re.match(r'const\s+C\s*&', param_type)
IsCopyParamType(t, cls) ==
    LET Ref(c) == LET m == SkipWs(t, c + 1)
                  IN  m <= Len(t) /\ t[c] = cls /\ t[m] = "&"
    IN  Len(t) >= 3 /\ t[1] = "const" /\ IsWs(t[2]) /\ Ref(SkipWs(t, 2))

\* re.match(C + r'\s*&&', param_type)
IsMoveParamType(t, cls) ==
    /\ Len(t) >= 1 /\ t[1] = cls
    /\ LET m == SkipWs(t, 2)
       IN  m + 1 <= Len(t) /\ t[m] = "&" /\ t[m+1] = "&"

\* 'const' in full_decl.split(')')[-1]
ConstAfterParen(fd) ==
    LET q == Last(fd, IsRParen)
    IN  \E k \in (q + 1)..Len(fd) : fd[k] \in ContainsConst

HasAny(s, S) == \E k \in 1..Len(s) : s[k] \in S

_match_function(lines, start_idx, current_class) ==
    LET Matched(fd, m, param_list, is_assignment, assignment_type, named, e) ==
            [ok |-> TRUE,
             return_type |-> ReturnTypeOf(fd, m.name_at),
             name |-> m.name,
             params |-> param_list,
             noexcept |-> HasAny(fd, ContainsNoexcept),
             throw |-> ThrowSpec(fd),
             static |-> HasAny(fd, ContainsStatic),
             const |-> ConstAfterParen(fd),
             full_decl |-> fd,
             is_ctor |-> named,
             is_dtor |-> current_class # None /\ m.name = <<"~", current_class>>,
             is_copy_ctor |-> named /\ Len(param_list) = 1
                              /\ IsCopyParamType(param_list[1].type, current_class),
             is_move_ctor |-> named /\ Len(param_list) = 1
                              /\ ~IsCopyParamType(param_list[1].type, current_class)
                              /\ IsMoveParamType(param_list[1].type, current_class),
             is_copy_assign |-> is_assignment /\ assignment_type = "copy",
             is_move_assign |-> is_assignment /\ assignment_type = "move",
             end_idx |-> e]
        Decide(fd, is_assignment, assignment_type, m, e) ==
            IF is_assignment /\ assignment_type = "none" THEN NoMatch
            ELSE IF ~m.ok THEN NoMatch
            ELSE Matched(fd, m, ParseParams(m.params), is_assignment, assignment_type,
                         current_class # None /\ m.name = <<current_class>>, e)
        Declared(fd, is_assignment, e) ==
            Decide(fd, is_assignment,
                   IF is_assignment /\ current_class # None
                      /\ AssignmentShape(fd, current_class)
                   THEN (IF HasAny(fd, ContainsConst) THEN "copy" ELSE "move")
                   ELSE "none",
                   FunctionPattern(fd), e)
        Joined(fd, e) == Declared(fd, HasOperatorEq(fd), e)
        At(full, e) == IF ~HasTerminator(full) THEN NoMatch
                       ELSE Joined(CutDecl(full), e)
    IN  At(FunctionJoinDecl(lines, start_idx), FunctionJoinEnd(lines, start_idx))


\* any(s in line for s in ['{','}','(',')',';']) and not (';' in line and '=' not in line)
VariableLineRejected(line) ==
    /\ \E c \in {"{", "}", "(", ")", ";"} : Has(line, c)
    /\ ~(Has(line, ";") /\ ~Has(line, "="))

SkipWords == {"class", "struct", "enum", "namespace", "using", "typedef",
              "template", "friend"}
AccessWords == {"public", "private", "protected"}

\* s.startswith(skip_prefixes): a skip word followed by a space, or an
\* access word followed by ':'
StartsWithSkipPrefix(st) ==
    /\ Len(st) >= 2
    /\ \/ st[1] \in SkipWords /\ IsSpaces(st[2])
       \/ st[1] \in AccessWords /\ st[2] = ":"

HasSemicolon(l) == Has(l, ";")

\* The joining loop of _match_variable, from the state (end_idx, full_decl):
\*   while end_idx < len(lines) and ';' not in full_decl:
\*       end_idx += 1
\*       if end_idx < len(lines):
\*           full_decl = f"{full_decl.rstrip()} {lines[end_idx].strip()}"
RECURSIVE VariableJoinLoop(_, _, _)
VariableJoinLoop(lines, end_idx, full_decl) ==
    IF end_idx <= Len(lines) /\ ~HasSemicolon(full_decl)
    THEN VariableJoinLoop(lines, end_idx + 1,
                          IF end_idx + 1 <= Len(lines)
                          THEN rstrip(full_decl) \o <<" ">> \o strip(lines[end_idx + 1])
                          ELSE full_decl)
    ELSE [end_idx |-> end_idx, full_decl |-> full_decl]

\* end_idx when the joining loop of _match_variable has stopped.
VariableJoinEnd(lines, start_idx) ==
    VariableJoinLoop(lines, start_idx, strip(lines[start_idx])).end_idx

\* full_decl when that loop has stopped.
VariableJoinDecl(lines, start_idx) ==
    VariableJoinLoop(lines, start_idx, strip(lines[start_idx])).full_decl

\* The stripped lines start_idx..e joined by single spaces, the text before
\* each space right-stripped.
RECURSIVE JoinVariable(_, _, _)
JoinVariable(lines, start_idx, e) ==
    IF e = start_idx THEN strip(lines[start_idx])
    ELSE rstrip(JoinVariable(lines, start_idx, e - 1)) \o <<" ">> \o strip(lines[e])

\* full_decl[:full_decl.index(';')].strip()
CutAtSemicolon(full) == strip(SubSeq(full, 1, IndexOf(full, ";") - 1))

\* With the type group (.+?) ending at lexeme k: \s+ follows, then the name
\* ([a-zA-Z_][a-zA-Z0-9_]*), then \s*(?:=\s*.*)?$ .
VarSplitAt(t, k) ==
    LET End(n) == n > Len(t) \/ t[n] = "="
        Name(d) == d <= Len(t) /\ IsIdent(t[d]) /\ End(SkipWs(t, d + 1))
    IN  k + 1 <= Len(t) /\ IsWs(t[k+1]) /\ Name(SkipWs(t, k + 1))

\* The variable pattern with the type group starting at lexeme s (interior
\* whitespace is single lexemes): the lazy group takes the shortest type.
VarMatchFrom(t, s) ==
    LET Splits(k) == VarSplitAt(t, k)
        At(k) == IF k > Len(t) THEN NoMatch
                 ELSE [ok |-> TRUE, type |-> strip(SubSeq(t, s, k)),
                       name |-> t[SkipWs(t, k + 1)]]
    IN  At(FirstIndex(s, Len(t), Splits))

StorageWords == {"static", "constexpr", "mutable", "inline"}

\* The number of characters of a whitespace lexeme.
WsLen(w) ==
    CASE w = "  " -> 2 [] w = "   " -> 3 [] w = "    " -> 4 [] OTHER -> 1

\* The variable pattern when the \s+ of a prefix group gives characters of
\* the whitespace lexeme w back: the prefix keeps one character, the lazy
\* type group (.+?) takes one and \s+ the rest, so the run needs three
\* characters and the name, followed by \s*(?:=\s*.*)?$, stands right after
\* it.  group(1).strip() is then the empty string.
VarMatchInRun(t, w) ==
    IF /\ w >= 2 /\ w + 1 <= Len(t) /\ IsWs(t[w]) /\ WsLen(t[w]) >= 3
       /\ IsIdent(t[w+1])
       /\ (SkipWs(t, w + 2) > Len(t) \/ t[SkipWs(t, w + 2)] = "=")
    THEN [ok |-> TRUE, type |-> <<>>, name |-> t[w+1]]
    ELSE NoMatch

\* Lexeme s is `const` followed by whitespace: the group (?:const\s+)? can
\* be taken there.
ConstAt(t, s) == s > 0 /\ s + 1 <= Len(t) /\ t[s] = "const" /\ IsWs(t[s+1])

\* The pattern from lexeme s on, after the first prefix group or at the
\* start: (?:const\s+)? taken with all its whitespace, then with whitespace
\* given back, then not taken.
VarMatchConst(t, s) ==
    IF ConstAt(t, s) /\ VarMatchFrom(t, SkipWs(t, s + 1)).ok
    THEN VarMatchFrom(t, SkipWs(t, s + 1))
    ELSE IF ConstAt(t, s) /\ VarMatchInRun(t, s + 1).ok
    THEN VarMatchInRun(t, s + 1)
    ELSE VarMatchFrom(t, s)

\* re.match(pattern, full_decl) in backtracking order: the first prefix
\* group taken with all its whitespace, then with whitespace given back,
\* then not taken; under each, the second prefix group likewise.
VariablePattern(t) ==
    IF Len(t) >= 2 /\ t[1] \in StorageWords /\ IsWs(t[2])
       /\ VarMatchConst(t, SkipWs(t, 2)).ok
    THEN VarMatchConst(t, SkipWs(t, 2))
    ELSE IF Len(t) >= 2 /\ t[1] \in StorageWords /\ VarMatchInRun(t, 2).ok
    THEN VarMatchInRun(t, 2)
    ELSE VarMatchConst(t, 1)

_match_variable(lines, start_idx) ==
    LET Matched(fd, m, e) ==
            IF StartsWithSkipPrefix(fd) \/ ~m.ok THEN NoMatch
            ELSE [ok |-> TRUE, type |-> m.type, name |-> m.name,
                  static |-> HasAny(fd, ContainsStatic),
                  constexpr |-> HasAny(fd, ContainsConstexpr),
                  mutable |-> HasAny(fd, ContainsMutable),
                  full_decl |-> fd, end_idx |-> e]
        Declared(fd, e) ==
            Matched(fd, IF fd = <<>> THEN NoMatch ELSE VariablePattern(fd), e)
        Joined(joined, e) == Declared(CutAtSemicolon(joined), e)
        At(line, full, e) ==
            IF VariableLineRejected(line) \/ StartsWithSkipPrefix(line) THEN NoMatch
            ELSE IF ~HasSemicolon(full) THEN NoMatch
            ELSE Joined(full, e)
    IN  At(strip(lines[start_idx]), VariableJoinDecl(lines, start_idx),
           VariableJoinEnd(lines, start_idx))

\* line[:len(line) - len(line.lstrip())]
_get_indent(line) == SubSeq(line, 1, First(line, NotWs, 1) - 1)

(***************************************************************************)
(* Comment synthesizers.  Each returns the list of elements appended to    *)
(* the output; an element is the lexemes of its text.                      *)
(***************************************************************************)

NL == <<"\n">>

_generate_class_comment(class_name, class_type, indent) ==
    << indent \o <<"/**">> \o NL,
       indent \o <<" ", "*", " ", "@", "brief", " ", class_type, " ", class_name>> \o NL,
       indent \o <<" ", "*">> \o NL,
       indent \o <<" ", "*", " ", "@", "details", " ", "Detailed", " ",
                   "description", " ", "of", " ", class_type, " ", class_name>> \o NL,
       indent \o <<" ", "*/">> \o NL >>

_generate_enum_comment(enum_name, indent) ==
    << indent \o <<"/**">> \o NL,
       indent \o <<" ", "*", " ", "@", "brief", " ", "Enum", " ", enum_name>> \o NL,
       indent \o <<" ", "*">> \o NL,
       indent \o <<" ", "*", " ", "@", "details", " ", "Detailed", " ",
                   "description", " ", "of", " ", "enum", " ", enum_name>> \o NL,
       indent \o <<" ", "*/">> \o NL >>

\* _generate_brief_description(var['name'], is_var=True)
VariableBrief(name) == <<"Variable", " ", name>>

Opt(c, x) == IF c THEN <<x>> ELSE <<>>

\* The list of comment elements, or <<>> for None ('(' or ')' in full_decl).
_generate_variable_comment(var, indent) ==
    IF Has(var.full_decl, "(") \/ Has(var.full_decl, ")") THEN <<>>
    ELSE << indent \o <<"/**">> \o NL,
            indent \o <<" ", "*", " ", "@", "brief", " ">> \o VariableBrief(var.name) \o NL,
            indent \o <<" ", "*">> \o NL >>
         \o Opt(var.static, indent \o <<" ", "*", " ", "@", "static">> \o NL)
         \o Opt(var.constexpr, indent \o <<" ", "*", " ", "@", "constexpr">> \o NL)
         \o Opt(var.mutable, indent \o <<" ", "*", " ", "@", "mutable">> \o NL)
         \o << indent \o <<" ", "*/">> \o NL >>


\* _generate_brief_description(name) for the function names of the model's
\* vocabulary (camelCase / snake_case splitting and the prefix table,
\* evaluated per name).
_generate_brief_description(name) ==
    CASE name = <<"add">> -> <<"Adds", " ", "a", " ", "new">>
      [] name = <<"f">> -> <<"F">>
      [] name = <<"g">> -> <<"G">>
      [] name = <<"Foo">> -> <<" ", "foo">>
      [] name = <<"~", "Foo">> -> <<"~", " ", "foo">>
      [] name = <<"Forward">> -> <<" ", "forward">>
      [] name = <<"TEST">> -> <<" ", "t", " ", "e", " ", "s", " ", "t">>
      [] name = <<"EXPECT_EQ">> ->
            <<" ", "e", " ", "x", " ", "p", " ", "e", " ", "c", " ", "t", " ", " ",
              "e", " ", "q">>
      [] name = <<"operator", "=">> -> <<"Operator", "=">>

Keywords14 == {"virtual", "inline", "explicit", "constexpr", "static", "friend",
               "mutable", "volatile", "register", "extern", "thread_local",
               "auto", "typename", "override", "final"}

\* re.sub(r'\s+', ' ', s): every whitespace run becomes one space.
RECURSIVE CollapseWs(_)
CollapseWs(s) ==
    IF s = <<>> THEN <<>>
    ELSE IF IsWs(Head(s))
    THEN <<" ">> \o CollapseWs(SubSeq(s, SkipWs(s, 1), Len(s)))
    ELSE <<Head(s)>> \o CollapseWs(Tail(s))

RECURSIVE DropKeywords(_)
DropKeywords(s) ==
    IF s = <<>> THEN <<>>
    ELSE (IF Head(s) \in Keywords14 THEN <<>> ELSE <<Head(s)>>) \o DropKeywords(Tail(s))

\* The class-body clean-up of return_type: re.sub(r'\b(?:virtual|...)\b', '', r),
\* re.sub(r'\s+', ' ', r).strip()
CleanReturnType(r) == strip(CollapseWs(DropKeywords(strip(r))))

\* if ret_type.startswith(spec): ret_type = ret_type[len(spec):].strip()
StripAccess(r, spec) ==
    IF Len(r) >= 2 /\ r[1] = spec /\ r[2] = ":" THEN strip(SubSeq(r, 3, Len(r))) ELSE r

IsAmpOrStar(t) == t \in {"&", "*"}
NotAmpOrStar(t) == ~IsAmpOrStar(t)

\* param_name.lstrip('&*'): the leading "&" and "*" characters go, also the
\* "*" of a lexeme "*/" that follows them
CleanParamName(n) ==
    LET Rest(r) == IF r # <<>> /\ r[1] = "*/" THEN <<"/">> \o Tail(r) ELSE r
    IN  Rest(SubSeq(n, First(n, NotAmpOrStar, 1), Len(n)))

RECURSIVE ParamLines(_, _)
ParamLines(params, indent) ==
    IF params = <<>> THEN <<>>
    ELSE (IF Head(params).name # <<>>
          THEN << indent \o <<" ", "*", " ", "@", "param", " ">>
                  \o CleanParamName(Head(params).name) \o NL >>
          ELSE <<>>)
         \o ParamLines(Tail(params), indent)

ThrowsLines(func, indent) ==
    IF func.throw # <<>>
    THEN [k \in 1..Len(func.throw) |->
            indent \o <<" ", "*", " ", "@", "throws", " ">> \o func.throw[k] \o NL]
    ELSE IF ~func.noexcept
    THEN << indent \o <<" ", "*", " ", "@", "throws", " ", "std", ":", ":",
                        "exception", " ", "on", " ", "error">> \o NL >>
    ELSE <<>>

BriefLine(func, current_class) ==
    IF func.is_copy_ctor THEN <<"Copy", " ", "constructor", " ", "for", " ", current_class>>
    ELSE IF func.is_move_ctor THEN <<"Move", " ", "constructor", " ", "for", " ", current_class>>
    ELSE IF func.is_copy_assign
    THEN <<"Copy", " ", "assignment", " ", "operator", " ", "for", " ", current_class>>
    ELSE IF func.is_move_assign
    THEN <<"Move", " ", "assignment", " ", "operator", " ", "for", " ", current_class>>
    ELSE IF func.is_ctor THEN <<"Constructor", " ", "for", " ", current_class>>
    ELSE IF func.is_dtor THEN <<"Destructor", " ", "for", " ", current_class>>
    ELSE _generate_brief_description(func.name)

\* The elements returned by _generate_function_comment: every element is
\* line + '\n', and the closing line already ends with '\n', so the last
\* element holds two newlines.  The re.sub on ret_type that follows the
\* access-specifier loop is written with '\\s' in a raw string, matches
\* nothing in a declaration and leaves ret_type as it is.
_generate_function_comment(func, indent, current_class) ==
    LET ret_type == StripAccess(StripAccess(StripAccess(strip(func.return_type),
                        "public"), "private"), "protected")
    IN  << indent \o <<"/**">> \o NL,
           indent \o <<" ", "*", " ", "@", "brief", " ">>
                  \o BriefLine(func, current_class) \o NL,
           indent \o <<" ", "*", " ", "@", "details">> \o NL >>
        \o ParamLines(func.params, indent)
        \o (IF ~func.is_ctor /\ ~func.is_dtor /\ ret_type # <<"void">> /\ ret_type # <<>>
            THEN << indent \o <<" ", "*", " ", "@", "return", " ">> \o ret_type \o NL >>
            ELSE <<>>)
        \o ThrowsLines(func, indent)
        \o Opt(func.static, indent \o <<" ", "*", " ", "@", "static">> \o NL)
        \o Opt(func.const, indent \o <<" ", "*", " ", "@", "const">> \o NL)
        \o << indent \o <<" ", "*/">> \o NL \o NL >>

\* line_comment.rstrip('\n') + '\n' (the class-body loop's normalisation)
IsNotNL(t) == t # "\n"
NormalizeNL(el) == SubSeq(el, 1, Last(el, IsNotNL)) \o NL


(***************************************************************************)
(* The structural scanner: line classification used by the main loop of    *)
(* parse_header / parse_header_internal and by the class-body loop.        *)
(***************************************************************************)

\* `output and output[-1].strip()`: the last output element is not blank
LastNonBlank(output) == output # <<>> /\ strip(output[Len(output)]) # <<>>

\* A separator of whitespace instead of the bare newline.
Separator_Spaces(output_) ==
    IF LastNonBlank(output_) THEN << <<" ", "\n">> >> ELSE <<>>

\* The blank separator appended before a comment block.
Separator(output) == IF LastNonBlank(output) THEN <<NL>> ELSE <<>>

\* lines[a..b] as a list of elements (empty when b < a)
Slice(lines, a, b) == IF b < a THEN <<>> ELSE SubSeq(lines, a, b)

\* The copy of an existing block without the step over its closing line.
CommentBlockEnd_NoStep(lines_, i_) ==
    IF \E k \in i_..Len(lines_) : HasCommentEnd(lines_[k])
    THEN (CHOOSE k \in i_..Len(lines_) :
             HasCommentEnd(lines_[k]) /\ \A j \in i_..(k-1) : ~HasCommentEnd(lines_[j])) - 1
    ELSE Len(lines_)

\* The line at which the copy of an existing comment block stops: the first
\* line at or after i holding '*/', else the last line of the file.
CommentBlockEnd(lines, i) ==
    IF \E k \in i..Len(lines) : HasCommentEnd(lines[k])
    THEN CHOOSE k \in i..Len(lines) :
            HasCommentEnd(lines[k]) /\ \A j \in i..(k-1) : ~HasCommentEnd(lines[j])
    ELSE Len(lines)

\* re.match(r'namespace\s+(\w+)\s*\{', stripped): the name, or None
NamespaceMatch(st) ==
    LET Brace(d, b) == IF IsWord(st[d]) /\ b <= Len(st) /\ st[b] = "{" THEN st[d] ELSE None
        Name(d) == Brace(d, SkipWs(st, d + 1))
    IN  IF Len(st) >= 3 /\ st[1] = "namespace" /\ IsWs(st[2])
        THEN Name(SkipWs(st, 2))
        ELSE None

\* re.match(r'^(class|struct)\s+(\w+)(.*)$', stripped)
ClassHeadMatch(st) ==
    IF Len(st) >= 3 /\ st[1] \in {"class", "struct"} /\ IsWs(st[2])
       /\ IsWord(st[SkipWs(st, 2)])
    THEN [ok |-> TRUE, class_type |-> st[1], class_name |-> st[SkipWs(st, 2)]]
    ELSE NoMatch

\* A line at which the look-ahead for '{' stops.
ClassLookaheadStops(l) ==
    StartsAnyComment(strip(l)) \/ Has(strip(l), "{") \/ Has(strip(l), ";")

\* The class/struct detection of the main loop: found, and the index of the
\* last line put into class_decl_lines.
ClassDecl(lines, i) ==
    LET Stops(j) == ClassLookaheadStops(lines[j])
        Found(m, last) == [ok |-> TRUE, class_type |-> m.class_type,
                           class_name |-> m.class_name, last |-> last]
        Ahead(m, j) ==
            IF j > Len(lines) THEN NoMatch
            ELSE IF ~StartsAnyComment(strip(lines[j])) /\ Has(strip(lines[j]), "{")
            THEN Found(m, j)
            ELSE NoMatch
        Declared(st, m) ==
            IF ~m.ok THEN NoMatch
            ELSE IF Has(st, "{") THEN Found(m, i)
            ELSE Ahead(m, FirstIndex(i + 1, Len(lines), Stops))
    IN  Declared(strip(lines[i]), ClassHeadMatch(strip(lines[i])))

\* re.match(r'enum\s+(?:class\s+)?(\w+)\s*(?::\s*\w+)?\s*\{', stripped): with
\* the name at lexeme d, the rest is \s*(?::\s*\w+)?\s*\{
EnumTail(st, d) ==
    LET Base(u, c) == u <= Len(st) /\ IsWord(st[u]) /\ c <= Len(st) /\ st[c] = "{"
        Colon(u) == Base(u, SkipWs(st, u + 1))
        After(b) == /\ b <= Len(st)
                    /\ \/ st[b] = "{"
                       \/ st[b] = ":" /\ Colon(SkipWs(st, b + 1))
    IN  d <= Len(st) /\ IsWord(st[d]) /\ After(SkipWs(st, d + 1))

EnumMatch(st) ==
    LET Name(d, d2) ==
            IF st[d] = "class" /\ d + 1 <= Len(st) /\ IsWs(st[d+1]) /\ EnumTail(st, d2)
            THEN st[d2]
            ELSE IF EnumTail(st, d) THEN st[d] ELSE None
        At(d) == Name(d, SkipWs(st, d + 1))
    IN  IF Len(st) >= 3 /\ st[1] = "enum" /\ IsWs(st[2])
        THEN At(SkipWs(st, 2))
        ELSE None

\* re.match(r'^(public|private|protected)\s*:\s*$', stripped)
IsAccessSpecifier(st) ==
    /\ Len(st) >= 2 /\ st[1] \in AccessWords
    /\ st[Len(st)] = ":" /\ SkipWs(st, 2) = Len(st)

\* '{' in ''.join(lines[i:end_idx+1])
HasBraceIn(lines, a, b) == \E k \in a..b : Has(lines[k], "{")


(***************************************************************************)
(* One iteration of the main loop (parse_header and parse_header_internal  *)
(* share it line for line; with enhance_existing the header variant        *)
(* collects the comment block in a list and extends the output with it).   *)
(* The result names the branch taken, the elements appended, the comment   *)
(* generated (doc), the next index and the new tracking fields; enter is   *)
(* TRUE when the class-body loop is entered.                               *)
(***************************************************************************)

TopLevelIteration(lines, i, output, current_class, current_namespace) ==
    LET keep == [current_class |-> current_class,
                 current_namespace |-> current_namespace,
                 enter |-> FALSE, doc |-> <<>>]
        Existing(e) ==
            keep @@ [branch |-> "existing", append |-> Slice(lines, i, e),
                     i |-> e + 1, last_was_decl |-> FALSE]
        Class(cd, doc) ==
            [keep EXCEPT !.current_class = cd.class_name, !.enter = TRUE,
                         !.doc = doc] @@
            [branch |-> "class",
             append |-> Separator(output) \o doc \o Slice(lines, i, cd.last)
                        \o <<NL>>,
             i |-> cd.last + 1, last_was_decl |-> TRUE]
        Function(fm, doc) ==
            [keep EXCEPT !.doc = doc] @@
            [branch |-> "function",
             append |-> Separator(output) \o doc \o Slice(lines, i, fm.end_idx)
                        \o <<NL>>,
             i |-> fm.end_idx + 1, last_was_decl |-> TRUE]
        Enum(doc) ==
            [keep EXCEPT !.doc = doc] @@
            [branch |-> "enum",
             append |-> Separator(output) \o doc \o <<lines[i], NL>>,
             i |-> i + 1, last_was_decl |-> TRUE]
        Branch(st, ns, cd, fm, en) ==
            IF st = <<>>
            THEN [keep EXCEPT !.doc = <<>>] @@
                 [branch |-> "blank", append |-> <<lines[i]>>, i |-> i + 1,
                  last_was_decl |-> FALSE]
            ELSE IF StartsDocComment(st)
            THEN Existing(CommentBlockEnd(lines, i))
            ELSE IF ns # None
            THEN [keep EXCEPT !.current_namespace = ns] @@
                 [branch |-> "namespace", append |-> Separator(output) \o <<lines[i]>>,
                  i |-> i + 1, last_was_decl |-> TRUE]
            ELSE IF cd.ok
            THEN Class(cd, _generate_class_comment(cd.class_name, cd.class_type,
                                                   _get_indent(lines[i])))
            ELSE IF fm.ok
            THEN Function(fm, _generate_function_comment(fm, _get_indent(lines[i]),
                                                         current_class))
            ELSE IF en # None
            THEN Enum(_generate_enum_comment(en, _get_indent(lines[i])))
            ELSE IF st = <<"}">> /\ (current_class # None \/ current_namespace # None)
            THEN keep @@ [branch |-> "close", append |-> <<lines[i], NL>>, i |-> i + 1,
                          last_was_decl |-> TRUE]
            ELSE keep @@ [branch |-> "regular", append |-> <<lines[i]>>, i |-> i + 1,
                          last_was_decl |-> FALSE]
        Line(st) == Branch(st, NamespaceMatch(st), ClassDecl(lines, i),
                           _match_function(lines, i, current_class), EnumMatch(st))
    IN  Line(strip(lines[i]))

\* existing_comment_lines without the closing line of the block
ExistingCommentLines_Open(lines_, i_) ==
    Slice(lines_, i_, CommentBlockEnd(lines_, i_) - 1)

\* existing_comment_lines: the lines of the block that starts at line i,
\* collected up to and including the first line holding '*/'
ExistingCommentLines(lines, i) == Slice(lines, i, CommentBlockEnd(lines, i))

\* The main loop of HeaderDoxygenGenerator.parse_header.  With
\* enhance_existing an existing block is collected in a list and the
\* output extended with it; no other branch reads the flag.
HeaderTopLevel(lines, i, output, current_class, current_namespace, enhance_existing) ==
    IF enhance_existing /\ StartsDocComment(strip(lines[i]))
    THEN [current_class |-> current_class, current_namespace |-> current_namespace,
          enter |-> FALSE, doc |-> <<>>, branch |-> "existing",
          append |-> ExistingCommentLines(lines, i),
          i |-> CommentBlockEnd(lines, i) + 1,
          last_was_decl |-> FALSE]
    ELSE TopLevelIteration(lines, i, output, current_class, current_namespace)

\* The main loop of CppSourceGenerator.parse_header_internal
InternalTopLevel(lines, i, output, current_class, current_namespace) ==
    TopLevelIteration(lines, i, output, current_class, current_namespace)

(***************************************************************************)
(* One iteration of the class-body loop.  loc holds the loop's locals:     *)
(* class_brace_depth, in_function_body, prev_access_specifier_line.  The   *)
(* result adds exit = TRUE when the loop breaks at the end of the class.   *)
(***************************************************************************)

BraceDelta(st) == count(st, "{") - count(st, "}")

\* func_decl['return_type'] after the class-body clean-up
WithCleanReturnType(fm) == [fm EXCEPT !.return_type = CleanReturnType(fm.return_type)]

\* prev_access_specifier_line = True: parse_header stores the flag where
\* parse_header_internal stores the marker line itself.
MarkerTrue == <<"True">>

\* The result of an iteration that appends the line and moves to the next
ClassBodyBase(lines, i, loc, depth) ==
    [class_brace_depth |-> depth,
     in_function_body |-> loc.in_function_body,
     prev_access_specifier_line |-> loc.prev_access_specifier_line,
     exit |-> FALSE, doc |-> <<>>, i |-> i + 1,
     append |-> <<lines[i]>>, last_was_decl |-> FALSE,
     keep_last_was_decl |-> FALSE]

\* line_comment.rstrip('\n') + '\n' for each line of a comment
Normalized(raw) == [k \in 1..Len(raw) |-> NormalizeNL(raw[k])]

\* A member variable: separator, comment, the declaration, a blank line
ClassBodyVariable(lines, i, output, base, vm, doc) ==
    [base EXCEPT !.doc = doc,
                 !.append = Separator(output) \o doc
                            \o Slice(lines, i, vm.end_idx) \o <<NL>>,
                 !.i = vm.end_idx + 1,
                 !.last_was_decl = TRUE]
    @@ [branch |-> "variable"]

\* A member function: the pending marker line (parse_header_internal
\* only), the comment and the declaration
ClassBodyFunction(lines, i, loc, base, fm, doc, marker) ==
    [base EXCEPT !.doc = doc,
                 !.append = marker \o doc \o Slice(lines, i, fm.end_idx),
                 !.in_function_body =
                     IF HasBraceIn(lines, i, fm.end_idx) THEN 1
                     ELSE loc.in_function_body,
                 !.i = fm.end_idx + 1,
                 !.last_was_decl = TRUE,
                 !.prev_access_specifier_line = <<>>]
    @@ [branch |-> "function"]

\* The comment of a member function, from the declaration with its return
\* type cleaned
MemberFunctionComment(lines, i, current_class, fm) ==
    Normalized(_generate_function_comment(WithCleanReturnType(fm),
                                          _get_indent(lines[i]), current_class))

\* The last branches of the class-body loop: the class ends when the
\* depth is 0, any other line is appended.
ClassBodyOther(lines, i, base, depth) ==
    IF depth = 0
    THEN [base EXCEPT !.exit = TRUE, !.append = <<lines[i], NL>>,
                      !.last_was_decl = TRUE]
         @@ [branch |-> "endclass"]
    ELSE base @@ [branch |-> "regular"]

\* The branches of the class-body loop of parse_header
HeaderClassBodyBranch(lines, i, output, current_class, loc, st, depth, base, fm, vm) ==
    IF IsAccessSpecifier(st)
    THEN [base EXCEPT !.prev_access_specifier_line = MarkerTrue]
         @@ [branch |-> "access"]
    ELSE IF loc.in_function_body > 0
    THEN [base EXCEPT !.in_function_body = loc.in_function_body + BraceDelta(st),
                      !.keep_last_was_decl = TRUE]
         @@ [branch |-> "body"]
    ELSE IF st = <<>> \/ StartsLineCommentOrHash(st)
    THEN [base EXCEPT !.keep_last_was_decl = TRUE] @@ [branch |-> "skip"]
    ELSE IF fm.ok
    THEN ClassBodyFunction(lines, i, loc, base, fm,
                           MemberFunctionComment(lines, i, current_class, fm), <<>>)
    ELSE IF vm.ok
    THEN ClassBodyVariable(lines, i, output, base, vm,
                           _generate_variable_comment(vm, _get_indent(lines[i])))
    ELSE ClassBodyOther(lines, i, base, depth)

\* The class-body loop of parse_header at a line whose braces give depth
HeaderClassBodyCounted(lines, i, output, current_class, loc, st, depth) ==
    HeaderClassBodyBranch(lines, i, output, current_class, loc, st, depth,
                          ClassBodyBase(lines, i, loc, depth),
                          _match_function(lines, i, current_class),
                          _match_variable(lines, i))

HeaderClassBody(lines, i, output, current_class, loc) ==
    HeaderClassBodyCounted(lines, i, output, current_class, loc, strip(lines[i]),
                           loc.class_brace_depth + BraceDelta(strip(lines[i])))

\* A line inside a member function's body: the counter follows the braces
\* and the pending marker is dropped when the body ends
ClassBodyInBody(loc, base, ifb) ==
    [base EXCEPT !.in_function_body = ifb,
                 !.prev_access_specifier_line =
                     IF ifb = 0 THEN <<>>
                     ELSE loc.prev_access_specifier_line,
                 !.keep_last_was_decl = TRUE]
    @@ [branch |-> "body"]

\* The branches of the class-body loop of parse_header_internal
InternalClassBodyBranch(lines, i, output, current_class, loc, st, depth, base, fm, vm) ==
    IF IsAccessSpecifier(st)
    THEN [base EXCEPT !.prev_access_specifier_line = lines[i], !.append = <<>>]
         @@ [branch |-> "access"]
    ELSE IF loc.in_function_body > 0
    THEN ClassBodyInBody(loc, base, loc.in_function_body + BraceDelta(st))
    ELSE IF fm.ok
    THEN ClassBodyFunction(lines, i, loc, base, fm,
                           MemberFunctionComment(lines, i, current_class, fm),
                           IF loc.prev_access_specifier_line # <<>>
                           THEN <<loc.prev_access_specifier_line>> ELSE <<>>)
    ELSE IF vm.ok
    THEN ClassBodyVariable(lines, i, output, base, vm,
                           _generate_variable_comment(vm, _get_indent(lines[i])))
    ELSE ClassBodyOther(lines, i, base, depth)

\* The class-body loop of parse_header_internal at a line whose braces give
\* depth
InternalClassBodyCounted(lines, i, output, current_class, loc, st, depth) ==
    InternalClassBodyBranch(lines, i, output, current_class, loc, st, depth,
                            ClassBodyBase(lines, i, loc, depth),
                            _match_function(lines, i, current_class),
                            _match_variable(lines, i))

InternalClassBody(lines, i, output, current_class, loc) ==
    InternalClassBodyCounted(lines, i, output, current_class, loc, strip(lines[i]),
                             loc.class_brace_depth + BraceDelta(strip(lines[i])))

\* while output and not output[-1].strip(): output.pop(); output.append('\n')
RECURSIVE TrimTrailingBlank(_)
TrimTrailingBlank(output) ==
    IF output # <<>> /\ strip(output[Len(output)]) = <<>>
    THEN TrimTrailingBlank(SubSeq(output, 1, Len(output) - 1))
    ELSE output

FinishOutput(output) == TrimTrailingBlank(output) \o <<NL>>


(***************************************************************************)
(* Test framework analyzer (TestCaseAnalyzer).                             *)
(***************************************************************************)

GTEST_PATTERNS == <<"TEST", "TEST_F", "TEST_P", "TYPED_TEST", "TYPED_TEST_P">>
CATCH2_PATTERNS == <<"TEST_CASE", "SCENARIO", "TEMPLATE_TEST_CASE">>
DOCTEST_PATTERNS == <<"TEST_CASE", "SCENARIO", "TEST_SUITE">>
BOOST_PATTERNS == <<"BOOST_AUTO_TEST_CASE", "BOOST_FIXTURE_TEST_CASE",
                    "BOOST_AUTO_TEST_SUITE">>

\* The word lexemes of the vocabulary that end with a macro name (a pattern
\* is searched, so it also matches at the end of a longer word).
Suffixed(n) ==
    CASE n = "TEST" -> {"TEST", "TYPED_TEST"}
      [] n = "TEST_P" -> {"TEST_P", "TYPED_TEST_P"}
      [] n = "TEST_CASE" -> {"TEST_CASE", "TEMPLATE_TEST_CASE", "BOOST_AUTO_TEST_CASE",
                             "BOOST_FIXTURE_TEST_CASE"}
      [] n = "TEST_SUITE" -> {"TEST_SUITE", "BOOST_AUTO_TEST_SUITE"}
      [] OTHER -> {n}

IsQuote(t) == t = "\""

\* NAME\s*\(\s*(\w+)\s*,\s*(\w+)\s*\) with NAME ending at lexeme k
TwoWordCall(s, k) ==
    LET AtClose(p, a, c, b, r) ==
            IF r <= Len(s) /\ s[p] = "(" /\ IsWord(s[a]) /\ s[c] = "," /\ IsWord(s[b])
               /\ s[r] = ")"
            THEN [ok |-> TRUE, g1 |-> <<s[a]>>, g2 |-> <<s[b]>>, groups |-> 2]
            ELSE NoMatch
        AtSecond(p, a, c, b) == AtClose(p, a, c, b, SkipWs(s, b + 1))
        AtComma(p, a, c) == AtSecond(p, a, c, SkipWs(s, c + 1))
        AtFirst(p, a) == AtComma(p, a, SkipWs(s, a + 1))
        AtOpen(p) == AtFirst(p, SkipWs(s, p + 1))
    IN  AtOpen(SkipWs(s, k + 1))

\* NAME\s*\(\s*(\w+)\s*\)
OneWordCall(s, k) ==
    LET AtClose(p, a, r) ==
            IF r <= Len(s) /\ s[p] = "(" /\ IsWord(s[a]) /\ s[r] = ")"
            THEN [ok |-> TRUE, g1 |-> <<s[a]>>, g2 |-> <<>>, groups |-> 1]
            ELSE NoMatch
        AtFirst(p, a) == AtClose(p, a, SkipWs(s, a + 1))
        AtOpen(p) == AtFirst(p, SkipWs(s, p + 1))
    IN  AtOpen(SkipWs(s, k + 1))

\* NAME\s*\(\s*"([^"]+)"
QuotedOpen(s, k) ==
    LET Quoted(p, q1, q2) ==
            IF q2 <= Len(s) /\ s[p] = "(" /\ s[q1] = "\"" /\ q2 > q1 + 1
            THEN [ok |-> TRUE, g1 |-> SubSeq(s, q1 + 1, q2 - 1), g2 |-> <<>>,
                  groups |-> 1, close |-> q2]
            ELSE NoMatch
        AtQuote(p, q1) == Quoted(p, q1, First(s, IsQuote, q1 + 1))
        AtOpen(p) == AtQuote(p, SkipWs(s, p + 1))
    IN  AtOpen(SkipWs(s, k + 1))

\* NAME\s*\(\s*"([^"]+)"\s*\)
QuotedCall(s, k) ==
    LET Closed(m) ==
            IF m.ok /\ SkipWs(s, m.close + 1) <= Len(s) /\ s[SkipWs(s, m.close + 1)] = ")"
            THEN m ELSE NoMatch
    IN  Closed(QuotedOpen(s, k))

\* NAME\s*\(\s*"([^"]+)"(?:\s*,\s*"([^"]*)")?\s*\)
QuotedTagCall(s, k) ==
    LET Tagged(m, t, q3, q4, r) ==
            IF t <= Len(s) /\ s[t] = ")" THEN m
            ELSE IF r <= Len(s) /\ s[t] = "," /\ s[q3] = "\"" /\ s[r] = ")"
            THEN [m EXCEPT !.g2 = SubSeq(s, q3 + 1, q4 - 1), !.groups = 2]
            ELSE NoMatch
        AtTagEnd(m, t, q3, q4) == Tagged(m, t, q3, q4, SkipWs(s, q4 + 1))
        AtTag(m, t, q3) == AtTagEnd(m, t, q3, First(s, IsQuote, q3 + 1))
        AtComma(m, t) == AtTag(m, t, SkipWs(s, t + 1))
        Opened(m) == IF ~m.ok THEN NoMatch ELSE AtComma(m, SkipWs(s, m.close + 1))
    IN  Opened(QuotedOpen(s, k))

\* pattern.search(s) for one macro name: the leftmost match
SearchCall(s, n, Shape(_, _)) ==
    LET Matches(k) == s[k] \in Suffixed(n) /\ Shape(s, k).ok
        At(k) == IF k > Len(s) THEN NoMatch ELSE Shape(s, k)
    IN  At(FirstIndex(1, Len(s), Matches))

GtestSearch(s, n) == SearchCall(s, n, TwoWordCall)

Catch2Search(s, n) ==
    IF n = "TEMPLATE_TEST_CASE" THEN SearchCall(s, n, QuotedOpen)
    ELSE SearchCall(s, n, QuotedTagCall)

DoctestSearch(s, n) == SearchCall(s, n, QuotedCall)

BoostSearch(s, n) ==
    IF n = "BOOST_FIXTURE_TEST_CASE" THEN SearchCall(s, n, TwoWordCall)
    ELSE SearchCall(s, n, OneWordCall)

\* The first pattern of the list, in list order, that is found in s.
FirstPattern(s, names, Search(_, _)) ==
    LET Found(n) == Search(s, names[n]).ok
        At(n) == IF n > Len(names) THEN NoMatch ELSE Search(s, names[n])
    IN  At(FirstIndex(1, Len(names), Found))

\* content = '\n'.join(lines)
RECURSIVE JoinNewline(_)
JoinNewline(lines) ==
    IF lines = <<>> THEN <<>>
    ELSE IF Len(lines) = 1 THEN lines[1]
    ELSE lines[1] \o NL \o JoinNewline(Tail(lines))

\* The lexemes whose text begins with "/".
BeginsWithSlash == {"/", "//", "///", "/**", "/*!"}

\* re.search(r'#include\s*[<"]' + path, content) where path is the lexemes
\* of the include path, followed by [>"] when closed is TRUE.  Nothing is
\* asked after an open path, so a path that ends in "/" is also found when
\* the text goes on after the "/" within the same lexeme.
IncludeAt(c, k, path, closed) ==
    /\ k + 1 <= Len(c) /\ c[k] = "#" /\ c[k+1] = "include"
    /\ LET o == SkipWs(c, k + 2)
           e == o + Len(path)
       IN  /\ e <= Len(c) /\ c[o] \in {"<", "\""}
           /\ SubSeq(c, o + 1, e - 1) = SubSeq(path, 1, Len(path) - 1)
           /\ \/ c[e] = path[Len(path)]
              \/ ~closed /\ path[Len(path)] = "/" /\ c[e] \in BeginsWithSlash
           /\ closed => (e + 1 <= Len(c) /\ c[e+1] \in {">", "\""})

HasInclude(c, path, closed) == \E k \in 1..Len(c) : IncludeAt(c, k, path, closed)

\* re.search(r'#include\s*[<"]catch2?/catch.*\.hpp[>"]', content)
CatchWords == {"catch", "catch2", "catch_all", "catch_test_macros"}

HasCatchInclude(c) ==
    \E k \in 1..Len(c) :
        /\ k + 1 <= Len(c) /\ c[k] = "#" /\ c[k+1] = "include"
        /\ LET o == SkipWs(c, k + 2)
           IN  /\ o + 3 <= Len(c) /\ c[o] \in {"<", "\""}
               /\ c[o+1] \in {"catch", "catch2"} /\ c[o+2] = "/"
               /\ c[o+3] \in CatchWords
               /\ \E d \in (o + 4)..(Len(c) - 2) :
                     /\ c[d] = "." /\ c[d+1] = "hpp" /\ c[d+2] \in {">", "\""}
                     /\ \A j \in (o + 4)..d : c[j] # "\n"

detect_test_framework(lines) ==
    LET Detect(c) ==
            IF HasInclude(c, <<"gtest", "/", "gtest", ".", "h">>, TRUE) THEN "gtest"
            ELSE IF HasCatchInclude(c) THEN "catch2"
            ELSE IF HasInclude(c, <<"doctest", "/", "doctest", ".", "h">>, TRUE)
            THEN "doctest"
            ELSE IF HasInclude(c, <<"boost", "/", "test", "/">>, FALSE) THEN "boost"
            ELSE IF FirstPattern(c, GTEST_PATTERNS, GtestSearch).ok THEN "gtest"
            ELSE IF FirstPattern(c, CATCH2_PATTERNS, Catch2Search).ok THEN "catch2"
            ELSE IF FirstPattern(c, BOOST_PATTERNS, BoostSearch).ok THEN "boost"
            ELSE None
    IN  Detect(JoinNewline(lines))

HasOpenBrace(l) == Has(l, "{")

\* sum of count('{') - count('}') over lines a..b
RECURSIVE BraceSum(_, _, _)
BraceSum(lines, a, b) ==
    IF b < a THEN 0 ELSE BraceSum(lines, a, b - 1) + BraceDelta(lines[b])

_find_test_body(lines, start_idx) ==
    LET Opens(k) == HasOpenBrace(lines[k])
        Ends(bs, e) == [body_start |-> bs,
                        body_end |-> IF e > Len(lines) THEN bs ELSE e]
        Body(bs) == LET Balanced(k) == BraceSum(lines, bs, k) = 0
                    IN  Ends(bs, FirstIndex(bs, Len(lines), Balanced))
        From(bs) == IF bs > Len(lines)
                    THEN [body_start |-> start_idx, body_end |-> start_idx]
                    ELSE Body(bs)
    IN  From(FirstIndex(start_idx, Len(lines), Opens))

ASSERTION_PATTERNS(framework) ==
    CASE framework = "gtest" ->
           <<"EXPECT_EQ", "EXPECT_NE", "EXPECT_LT", "EXPECT_LE", "EXPECT_GT", "EXPECT_GE",
             "EXPECT_TRUE", "EXPECT_FALSE", "EXPECT_STREQ", "EXPECT_STRNE",
             "EXPECT_THROW", "EXPECT_NO_THROW", "EXPECT_ANY_THROW",
             "ASSERT_EQ", "ASSERT_NE", "ASSERT_LT", "ASSERT_LE", "ASSERT_GT", "ASSERT_GE",
             "ASSERT_TRUE", "ASSERT_FALSE", "ASSERT_THROW", "ASSERT_NO_THROW">>
      [] framework \in {"catch2", "doctest"} ->
           <<"REQUIRE", "REQUIRE_FALSE", "REQUIRE_THROWS", "REQUIRE_NOTHROW",
             "CHECK", "CHECK_FALSE", "CHECK_THROWS", "CHECK_NOTHROW">>
      [] framework = "boost" ->
           <<"BOOST_CHECK", "BOOST_REQUIRE", "BOOST_CHECK_EQUAL", "BOOST_REQUIRE_EQUAL",
             "BOOST_CHECK_THROW", "BOOST_REQUIRE_THROW", "BOOST_CHECK_NO_THROW">>
      [] OTHER -> <<>>

\* The pairs <<p, w>> of assertion names with p a proper substring of w.
SubstringPairs ==
    {<<"BOOST_CHECK", "BOOST_CHECK_EQUAL">>, <<"BOOST_CHECK", "BOOST_CHECK_NO_THROW">>,
     <<"BOOST_CHECK", "BOOST_CHECK_THROW">>, <<"BOOST_REQUIRE", "BOOST_REQUIRE_EQUAL">>,
     <<"BOOST_REQUIRE", "BOOST_REQUIRE_THROW">>, <<"CHECK", "BOOST_CHECK">>,
     <<"CHECK", "BOOST_CHECK_EQUAL">>, <<"CHECK", "BOOST_CHECK_NO_THROW">>,
     <<"CHECK", "BOOST_CHECK_THROW">>, <<"CHECK", "CHECK_FALSE">>,
     <<"CHECK", "CHECK_NOTHROW">>, <<"CHECK", "CHECK_THROWS">>,
     <<"REQUIRE", "BOOST_REQUIRE">>, <<"REQUIRE", "BOOST_REQUIRE_EQUAL">>,
     <<"REQUIRE", "BOOST_REQUIRE_THROW">>, <<"REQUIRE", "REQUIRE_FALSE">>,
     <<"REQUIRE", "REQUIRE_NOTHROW">>, <<"REQUIRE", "REQUIRE_THROWS">>}

\* `p in w` for assertion names
NameContains(w, p) == w = p \/ <<p, w>> \in SubstringPairs

RECURSIVE SelectSeq2(_, _)
SelectSeq2(names, body) ==
    IF names = <<>> THEN <<>>
    ELSE (IF \E k \in 1..Len(body) : NameContains(body[k], Head(names))
          THEN <<Head(names)>> ELSE <<>>)
         \o SelectSeq2(Tail(names), body)

\* body_lines is lines[body_start:body_end+1]
_extract_assertions(body_lines, framework) ==
    SelectSeq2(ASSERTION_PATTERNS(framework), Flatten(body_lines))

\* line.split('(')[0].strip()
TestTypeOf(line) == strip(SubSeq(line, 1, First(line, IsLParen, 1) - 1))

parse_test_case(lines, start_idx, framework) ==
    LET Info(m, body, test_type) ==
            IF ~m.ok THEN NoMatch
            ELSE [ok |-> TRUE,
                  framework |-> framework,
                  test_name |-> IF framework = "gtest" THEN m.g2 ELSE m.g1,
                  test_suite |-> IF framework = "gtest" THEN m.g1
                                 ELSE IF framework = "boost" THEN <<>>
                                 ELSE m.g2,
                  test_type |-> test_type,
                  fixture_class |-> IF framework = "gtest"
                                    THEN (IF HasAny(test_type, {"TEST_F"}) THEN m.g1
                                          ELSE <<>>)
                                    ELSE IF framework = "boost" THEN m.g2
                                    ELSE <<>>,
                  assertions |-> _extract_assertions(
                                     Slice(lines, body.body_start, body.body_end),
                                     framework),
                  end_idx |-> body.body_end]
        Line(line) ==
            Info(CASE framework = "gtest" ->
                        FirstPattern(line, GTEST_PATTERNS, GtestSearch)
                   [] framework = "catch2" ->
                        FirstPattern(line, CATCH2_PATTERNS, Catch2Search)
                   [] framework = "doctest" ->
                        FirstPattern(line, DOCTEST_PATTERNS, DoctestSearch)
                   [] framework = "boost" ->
                        FirstPattern(line, BOOST_PATTERNS, BoostSearch)
                   [] OTHER -> NoMatch,
                 _find_test_body(lines, start_idx),
                 TestTypeOf(line))
    IN  Line(strip(lines[start_idx]))


\* generate_test_description(test_info) for the test names of the model's
\* vocabulary (underscore / CamelCase splitting and the prefix table,
\* evaluated per name).
generate_test_description(test_name) ==
    CASE test_name = <<"C">> -> <<"Tests", " ", "c">>
      [] test_name = <<"Case">> -> <<"Tests", " ", "case">>

\* The fixed table of analyze_test_coverage, in dictionary order.
assertion_coverage ==
    << [pattern |-> "EXPECT_EQ", description |-> <<"equality", " ", "comparison">>],
       [pattern |-> "EXPECT_NE", description |-> <<"inequality", " ", "comparison">>],
       [pattern |-> "EXPECT_TRUE",
        description |-> <<"boolean", " ", "true", " ", "condition">>],
       [pattern |-> "EXPECT_FALSE",
        description |-> <<"boolean", " ", "false", " ", "condition">>],
       [pattern |-> "EXPECT_THROW",
        description |-> <<"exception", " ", "throwing", " ", "behavior">>],
       [pattern |-> "EXPECT_NO_THROW",
        description |-> <<"no", " ", "exception", " ", "behavior">>],
       [pattern |-> "REQUIRE", description |-> <<"required", " ", "conditions">>],
       [pattern |-> "CHECK", description |-> <<"checked", " ", "conditions">>],
       [pattern |-> "BOOST_CHECK_EQUAL",
        description |-> <<"equality", " ", "validation">>] >>

\* The coverage point of one assertion: the first table entry whose pattern
\* occurs in the assertion name, as a one-element list; <<>> when none does.
CoverageOf(assertion) ==
    LET Covers(n) == NameContains(assertion, assertion_coverage[n].pattern)
        At(n) == IF n > Len(assertion_coverage) THEN <<>>
                 ELSE << <<"Covers", " ">> \o assertion_coverage[n].description >>
    IN  At(FirstIndex(1, Len(assertion_coverage), Covers))

RECURSIVE CoverageAll(_)
CoverageAll(assertions) ==
    IF assertions = <<>> THEN <<>>
    ELSE CoverageOf(Head(assertions)) \o CoverageAll(Tail(assertions))

\* list(dict.fromkeys(coverage)): first occurrences, in order
RECURSIVE Dedup(_)
Dedup(xs) ==
    LET Add(front, x) == IF \E k \in 1..Len(front) : front[k] = x THEN front
                         ELSE Append(front, x)
    IN  IF xs = <<>> THEN <<>>
        ELSE Add(Dedup(SubSeq(xs, 1, Len(xs) - 1)), xs[Len(xs)])

MaxCoveragePoints == 5

analyze_test_coverage_LimitFirst(assertions_) ==
    Dedup(SubSeq(CoverageAll(assertions_), 1,
                 Min(MaxCoveragePoints, Len(CoverageAll(assertions_)))))

analyze_test_coverage(assertions) ==
    LET Limit(coverage) == SubSeq(coverage, 1, Min(MaxCoveragePoints, Len(coverage)))
    IN  Limit(Dedup(CoverageAll(assertions)))

\* framework_names.get(test_info.framework, test_info.framework)
FrameworkName(framework) ==
    CASE framework = "gtest" -> <<"Google", " ", "Test">>
      [] framework = "catch2" -> <<"Catch2">>
      [] framework = "doctest" -> <<"doctest">>
      [] framework = "boost" -> <<"Boost", ".", "Test">>
      [] OTHER -> <<framework>>

_generate_test_case_comment(test_info, indent) ==
    LET Comment(coverage, star) ==
            << indent \o <<"/**">> \o NL,
               star \o <<" ", "@", "brief", " ">>
                    \o generate_test_description(test_info.test_name) \o NL,
               star \o NL,
               star \o <<" ", "@", "details">> \o NL >>
            \o (IF test_info.test_suite # <<>>
                THEN << star \o <<" ", "Test", " ">>
                        \o (IF test_info.framework = "gtest" THEN <<"Suite">>
                            ELSE <<"Category">>)
                        \o <<":", " ">> \o test_info.test_suite \o NL >>
                ELSE <<>>)
            \o (IF test_info.fixture_class # <<>>
                THEN << star \o <<" ", "Test", " ", "Fixture", ":", " ">>
                        \o test_info.fixture_class \o NL >>
                ELSE <<>>)
            \o << star \o <<" ", "Framework", ":", " ">>
                  \o FrameworkName(test_info.framework) \o NL >>
            \o (IF coverage # <<>>
                THEN << star \o NL,
                        star \o <<" ", "Test", " ", "Coverage", ":">> \o NL >>
                     \o [k \in 1..Len(coverage) |->
                            star \o <<" ", "-", " ">> \o coverage[k] \o NL]
                ELSE <<>>)
            \o (IF test_info.test_type # <<>>
                THEN << star \o NL,
                        star \o <<" ", "@", "test", " ">> \o test_info.test_type \o NL >>
                ELSE <<>>)
            \o << indent \o <<" ", "*/">> \o NL >>
    IN  Comment(analyze_test_coverage(test_info.assertions), indent \o <<" ", "*">>)

\* One iteration of the loop of CppSourceGenerator._parse_test_file
TestRegularLine_Twice(lines_, i_) ==
    [branch |-> "regular", append |-> <<lines_[i_], lines_[i_]>>, i |-> i_ + 1,
     doc |-> <<>>]

\* Regular line: output.append(lines[i]); i += 1
TestRegularLine(lines, i) ==
    [branch |-> "regular", append |-> <<lines[i]>>, i |-> i + 1, doc |-> <<>>]

TestFileIteration(lines, i, output, detected_framework) ==
    LET Existing(e) ==
            [branch |-> "existing", append |-> Slice(lines, i, e), i |-> e + 1,
             doc |-> <<>>]
        TestCase(tc, doc) ==
            [branch |-> "testcase",
             append |-> Separator(output) \o doc \o Slice(lines, i, tc.end_idx)
                        \o <<NL>>,
             i |-> tc.end_idx + 1, doc |-> doc]
        Branch(st, tc) ==
            IF st = <<>>
            THEN [branch |-> "blank", append |-> <<lines[i]>>, i |-> i + 1, doc |-> <<>>]
            ELSE IF StartsDocComment(st)
            THEN Existing(CommentBlockEnd(lines, i))
            ELSE IF tc.ok
            THEN TestCase(tc, _generate_test_case_comment(tc, _get_indent(lines[i])))
            ELSE TestRegularLine(lines, i)
    IN  Branch(strip(lines[i]), parse_test_case(lines, i, detected_framework))


(***************************************************************************)
(* A whole call, as a function of the lines read and of the tracking       *)
(* fields the generator object holds when the call starts.  The result     *)
(* holds the list returned and the fields the call leaves behind.          *)
(***************************************************************************)

\* The locals of the class-body loop when it is entered.
ClassBodyLocals ==
    [class_brace_depth |-> 1, in_function_body |-> 0,
     prev_access_specifier_line |-> <<>>]

\* The locals and tracking fields when the main loop starts.
LoopStart(current_class, current_namespace) ==
    [pc |-> "top", i |-> 1, output |-> <<>>, current_class |-> current_class,
     current_namespace |-> current_namespace, loc |-> ClassBodyLocals]

\* The state after an iteration of the main loop with result r.
AfterTopLevel(st, r) ==
    [pc |-> IF r.enter THEN "class" ELSE "top",
     i |-> r.i,
     output |-> st.output \o r.append,
     current_class |-> r.current_class,
     current_namespace |-> r.current_namespace,
     loc |-> IF r.enter THEN ClassBodyLocals ELSE st.loc]

\* The state after an iteration of the class-body loop with result r.
AfterClassBody(st, r) ==
    [pc |-> IF r.exit THEN "top" ELSE "class",
     i |-> r.i,
     output |-> st.output \o r.append,
     current_class |-> IF r.exit THEN None ELSE st.current_class,
     current_namespace |-> st.current_namespace,
     loc |-> [class_brace_depth |-> r.class_brace_depth,
              in_function_body |-> r.in_function_body,
              prev_access_specifier_line |-> r.prev_access_specifier_line]]

\* The loops of parse_header from the state st on, to the end of the lines.
RECURSIVE HeaderLoop(_, _, _)
HeaderLoop(lines, enhance_existing, st) ==
    IF st.i > Len(lines) THEN st
    ELSE IF st.pc = "top"
    THEN HeaderLoop(lines, enhance_existing,
                    AfterTopLevel(st, HeaderTopLevel(lines, st.i, st.output,
                                                     st.current_class,
                                                     st.current_namespace,
                                                     enhance_existing)))
    ELSE HeaderLoop(lines, enhance_existing,
                    AfterClassBody(st, HeaderClassBody(lines, st.i, st.output,
                                                       st.current_class, st.loc)))

\* The loops of parse_header_internal from the state st on.
RECURSIVE InternalLoop(_, _)
InternalLoop(lines, st) ==
    IF st.i > Len(lines) THEN st
    ELSE IF st.pc = "top"
    THEN InternalLoop(lines,
                      AfterTopLevel(st, InternalTopLevel(lines, st.i, st.output,
                                                         st.current_class,
                                                         st.current_namespace)))
    ELSE InternalLoop(lines,
                      AfterClassBody(st, InternalClassBody(lines, st.i, st.output,
                                                           st.current_class, st.loc)))

\* What a call leaves behind: the list returned and the tracking fields.
Returned(st) ==
    [output |-> FinishOutput(st.output), current_class |-> st.current_class,
     current_namespace |-> st.current_namespace]

\* The loop of _parse_test_file from line i on.
RECURSIVE TestFileLoop(_, _, _, _)
TestFileLoop(lines, i, output, detected_framework) ==
    LET Applied(r) == TestFileLoop(lines, r.i, output \o r.append, detected_framework)
    IN  IF i > Len(lines) THEN output
        ELSE Applied(TestFileIteration(lines, i, output, detected_framework))

\* HeaderDoxygenGenerator.parse_header on a file holding the lines
parse_header(lines, enhance_existing, current_class, current_namespace) ==
    Returned(HeaderLoop(lines, enhance_existing,
                        LoopStart(current_class, current_namespace)))

\* CppSourceGenerator.parse_header_internal(lines)
parse_header_internal(lines, current_class, current_namespace) ==
    Returned(InternalLoop(lines, LoopStart(current_class, current_namespace)))

\* CppSourceGenerator._parse_test_file(lines)
_parse_test_file(lines, detected_framework) ==
    FinishOutput(TestFileLoop(lines, 1, <<>>, detected_framework))

\* What parse_source leaves behind after parse_header_internal returned m.
RegularFile(m) ==
    [output |-> m.output, current_class |-> m.current_class,
     current_namespace |-> m.current_namespace,
     detected_framework |-> None, is_test_file |-> FALSE]

\* parse_source after detect_test_framework returned the framework
Dispatched(lines, current_class, current_namespace, framework) ==
    IF framework # None
    THEN [output |-> _parse_test_file(lines, framework),
          current_class |-> current_class,
          current_namespace |-> current_namespace,
          detected_framework |-> framework, is_test_file |-> TRUE]
    ELSE RegularFile(parse_header_internal(lines, current_class, current_namespace))

\* CppSourceGenerator.parse_source on a file holding the lines
parse_source(lines, current_class, current_namespace) ==
    Dispatched(lines, current_class, current_namespace, detect_test_framework(lines))


(***************************************************************************)
(* HeaderDoxygenGenerator.process_lines(lines): the line processor that    *)
(* works on a list of lines without a file.  Its `for i, line in           *)
(* enumerate(lines)` loop takes every line in turn: the index a branch     *)
(* assigns (i = end_idx + 1, or the index the class-body loop stopped at)  *)
(* is replaced by the next index of the enumeration, so the lines a branch *)
(* consumed beyond line i are processed again.                             *)
(***************************************************************************)

\* re.match(r'(class|struct)\s+(\w+)\s*(?:final)?\s*
\*            (?::\s*(?:public|private|protected)\s+\w+)?\s*\{', stripped_line)
ClassOpenMatch(st) ==
    LET Brace(b) == b <= Len(st) /\ st[b] = "{"
        Base(a, w) == /\ a + 1 <= Len(st) /\ st[a] \in AccessWords /\ IsWs(st[a+1])
                      /\ w <= Len(st) /\ IsWord(st[w]) /\ Brace(SkipWs(st, w + 1))
        Inherit(c) == \/ Brace(c)
                      \/ /\ c <= Len(st) /\ st[c] = ":"
                         /\ Base(SkipWs(st, c + 1), SkipWs(st, SkipWs(st, c + 1) + 1))
        Final(f) == \/ Inherit(f)
                    \/ f <= Len(st) /\ st[f] = "final" /\ Inherit(SkipWs(st, f + 1))
    IN  IF /\ Len(st) >= 3 /\ st[1] \in {"class", "struct"} /\ IsWs(st[2])
           /\ IsWord(st[SkipWs(st, 2)])
           /\ Final(SkipWs(st, SkipWs(st, 2) + 1))
        THEN [ok |-> TRUE, class_type |-> st[1], class_name |-> st[SkipWs(st, 2)]]
        ELSE NoMatch

\* The state of a process_lines call when its loop starts.
ProcessLinesStart(current_class, current_namespace) ==
    [output_lines |-> <<>>, current_class |-> current_class,
     current_namespace |-> current_namespace, inside_class |-> FALSE,
     class_brace_depth |-> 0, i |-> 1]

\* The state after the elements appended and the index i assigned.
Appended(st, elements, i) ==
    [st EXCEPT !.output_lines = st.output_lines \o elements, !.i = i]

\* output_lines.extend(comment + the lines of a matched function), i = end_idx + 1
ProcessLinesFunction(lines, i, st, func_match) ==
    Appended(st,
             _generate_function_comment(func_match, _get_indent(lines[i]),
                                        st.current_class)
             \o Slice(lines, i, func_match.end_idx),
             func_match.end_idx + 1)

\* output_lines.extend(comment + the lines of a matched variable), i = end_idx + 1
ProcessLinesVariable(lines, i, st, var_match) ==
    Appended(st,
             _generate_variable_comment(var_match, _get_indent(lines[i]))
             \o Slice(lines, i, var_match.end_idx),
             var_match.end_idx + 1)

\* class_brace_depth += line.count('{') - line.count('}')
BracesCounted(lines, st) ==
    [st EXCEPT !.class_brace_depth = st.class_brace_depth
                                       + BraceDelta(strip(lines[st.i]))]

\* The class-body loop at a line that is no access specifier and matches
\* neither a variable nor a function: the class ends when the depth is 0.
ProcessLinesClassOther(lines, st) ==
    IF st.class_brace_depth = 0
    THEN Appended([st EXCEPT !.inside_class = FALSE, !.current_class = None],
                  <<lines[st.i]>>, st.i + 1)
    ELSE Appended(st, <<lines[st.i]>>, st.i + 1)

\* One iteration of the class-body loop of process_lines at line st.i: the
\* variable matcher is tried before the function matcher.
ProcessLinesClassBody(lines, st) ==
    IF IsAccessSpecifier(strip(lines[st.i]))
    THEN Appended(BracesCounted(lines, st), <<lines[st.i]>>, st.i + 1)
    ELSE IF _match_variable(lines, st.i).ok
    THEN ProcessLinesVariable(lines, st.i, BracesCounted(lines, st),
                              _match_variable(lines, st.i))
    ELSE IF _match_function(lines, st.i, st.current_class).ok
    THEN ProcessLinesFunction(lines, st.i, BracesCounted(lines, st),
                              _match_function(lines, st.i, st.current_class))
    ELSE ProcessLinesClassOther(lines, BracesCounted(lines, st))

\* while i < len(lines) and inside_class
RECURSIVE ProcessLinesClassLoop(_, _)
ProcessLinesClassLoop(lines, st) ==
    IF st.i > Len(lines) \/ ~st.inside_class THEN st
    ELSE ProcessLinesClassLoop(lines, ProcessLinesClassBody(lines, st))

\* A class opening: the class comment, the line, and the class-body loop
\* from the next line on.
ProcessLinesClassOpen(lines, i, st, class_match) ==
    ProcessLinesClassLoop(lines,
        Appended([st EXCEPT !.current_class = class_match.class_name,
                            !.inside_class = TRUE,
                            !.class_brace_depth = 1],
                 _generate_class_comment(class_match.class_name,
                                         class_match.class_type,
                                         _get_indent(lines[i]))
                 \o <<lines[i]>>,
                 i + 1))

\* An enum: the enum comment and the line
ProcessLinesEnum(lines, i, st, enum_match) ==
    Appended(st, _generate_enum_comment(enum_match, _get_indent(lines[i]))
                 \o <<lines[i]>>, i)

\* The last branches of the for loop: a lone closing brace while a class or
\* a namespace is tracked, and any other line.
ProcessLinesOther(lines, i, st) ==
    IF strip(lines[i]) = <<"}">>
       /\ (st.current_class # None \/ st.current_namespace # None)
    THEN Appended([st EXCEPT !.inside_class = FALSE], <<lines[i]>>, i)
    ELSE Appended(st, <<lines[i]>>, i)

\* One iteration of the for loop of process_lines at line i.  The branch
\* `inside_class and self._is_variable_declaration(...)` calls the matcher
\* the loop has called with no match already, and appends nothing.
ProcessLinesIteration(lines, i, st) ==
    IF strip(lines[i]) = <<>> \/ StartsDocComment(strip(lines[i]))
    THEN Appended(st, <<lines[i]>>, i)
    ELSE IF NamespaceMatch(strip(lines[i])) # None
    THEN Appended([st EXCEPT !.current_namespace = NamespaceMatch(strip(lines[i]))],
                  <<lines[i]>>, i)
    ELSE IF ClassOpenMatch(strip(lines[i])).ok
    THEN ProcessLinesClassOpen(lines, i, st, ClassOpenMatch(strip(lines[i])))
    ELSE IF _match_function(lines, i, st.current_class).ok
    THEN ProcessLinesFunction(lines, i, st, _match_function(lines, i, st.current_class))
    ELSE IF EnumMatch(strip(lines[i])) # None
    THEN ProcessLinesEnum(lines, i, st, EnumMatch(strip(lines[i])))
    ELSE IF _match_variable(lines, i).ok
    THEN ProcessLinesVariable(lines, i, st, _match_variable(lines, i))
    ELSE ProcessLinesOther(lines, i, st)

\* for i, line in enumerate(lines)
RECURSIVE ProcessLinesLoop(_, _, _)
ProcessLinesLoop(lines, i, st) ==
    IF i > Len(lines) THEN st
    ELSE ProcessLinesLoop(lines, i + 1, ProcessLinesIteration(lines, i, st))

\* HeaderDoxygenGenerator.process_lines(lines): the list returned and the
\* tracking fields the call leaves behind
process_lines(lines, current_class, current_namespace) ==
    ProcessLinesLoop(lines, 1, ProcessLinesStart(current_class, current_namespace))


(***************************************************************************)
(* Input files.  A file is a list of lines, each ending with "\n"; the     *)
(* lines are drawn from three small libraries (top-level lines, class-body *)
(* lines after an opened class, test-file lines after a gtest include).    *)
(***************************************************************************)

L_blank == <<"\n">>
L_doc == <<"/**", " ", "doc", " ", "*/", "\n">>
L_doc_open == <<"/**", "\n">>
L_doc_close == <<" ", "*/", "\n">>
L_doc_slashes == <<"///", " ", "doc", "\n">>
L_add == <<"int", " ", "add", "(", "int", " ", "a", ",", " ", "int", " ", "b", ")", ";", "\n">>
L_f_open == <<"void", " ", "f", "(", ")", " ", "{", "\n">>
L_close == <<"}", "\n">>
L_forward == <<"class", " ", "Forward", ";", "\n">>
L_class_Foo == <<"class", " ", "Foo", " ", "{", "\n">>
L_class_end == <<"}", ";", "\n">>
L_var_x == <<"int", " ", "x", ";", "\n">>
L_namespace == <<"namespace", " ", "ns", " ", "{", "\n">>
L_enum == <<"enum", " ", "Color", " ", "{", "\n">>
L_g_indented == <<"    ", "int", " ", "g", "(", "unsigned", " ", "int", ")", ";", "\n">>

L_public == <<"public", ":", "\n">>
L_ctor == <<"    ", "Foo", "(", ")", ";", "\n">>
L_dtor == <<"    ", "~", "Foo", "(", ")", ";", "\n">>
L_copy_unnamed == <<"    ", "Foo", "(", "const", " ", "Foo", "&", ")", ";", "\n">>
L_move_unnamed == <<"    ", "Foo", "(", "Foo", "&", "&", ")", ";", "\n">>
L_copy_named == <<"    ", "Foo", "(", "const", " ", "Foo", "&", " ", "other", ")", ";", "\n">>
L_move_named == <<"    ", "Foo", "(", "Foo", "&", "&", " ", "other", ")", ";", "\n">>
L_member_x == <<"    ", "int", " ", "x", ";", "\n">>
L_member_x_init == <<"    ", "int", " ", "x", " ", "=", " ", "0", ";", "\n">>
L_assign_copy == <<"    ", "Foo", "&", " ", "operator", "=", "(", "const", " ", "Foo", "&", ")", ";", "\n">>
L_assign_move == <<"    ", "Foo", "&", " ", "operator", "=", "(", "Foo", "&", "&", ")", ";", "\n">>
L_assign_copy_void == <<"    ", "void", " ", "operator", "=", "(", "const", " ", "Foo", "&", ")", ";", "\n">>
L_assign_move_void == <<"    ", "void", " ", "operator", "=", "(", "Foo", "&", "&", ")", ";", "\n">>
L_assign_move_const == <<"    ", "void", " ", "operator", "=", "(", "Foo", "&", "&", ")", " ", "const", ";", "\n">>
L_assign_int == <<"    ", "void", " ", "operator", "=", "(", "int", ")", ";", "\n">>
L_member_f_open == <<"    ", "void", " ", "f", "(", ")", " ", "{", "\n">>
L_member_close == <<"    ", "}", "\n">>
L_member_f_if == <<"    ", "void", " ", "f", "(", ")", " ", "{", " ", "if", " ", "(", "x", ")", " ", "{", "\n">>
L_member_close2 == <<"    ", "}", "}", "\n">>
L_member_doc == <<"    ", "/**", " ", "doc", " ", "*/", "\n">>

L_include_gtest == <<"#", "include", " ", "<", "gtest", "/", "gtest", ".", "h", ">", "\n">>
L_test == <<"TEST", "(", "S", ",", " ", "C", ")", " ", "{", "\n">>
L_add_open == <<"int", " ", "add", "(", "int", " ", "a", ",", "\n">>
L_class_bare == <<"class", " ", "Foo", "\n">>
L_expect == <<"    ", "EXPECT_EQ", "(", "1", ",", " ", "1", ")", ";", "\n">>

L_include_catch2 == <<"#", "include", " ", "<", "catch2", "/", "catch", ".", "hpp", ">", "\n">>
L_include_doctest ==
    <<"#", "include", " ", "\"", "doctest", "/", "doctest", ".", "h", "\"", "\n">>
L_include_boost ==
    <<"#", "include", " ", "<", "boost", "/", "test", "/", "unit_test", ".", "hpp", ">", "\n">>
L_include_cppunit ==
    <<"#", "include", " ", "<", "cppunit", "/", "TestCase", ".", "h", ">", "\n">>

L_noexcept == <<"void", " ", "f", "(", ")", " ", "noexcept", ";", "\n">>
L_throw_two == <<"void", " ", "f", "(", ")", " ", "throw", "(", "A", ",", " ", "B", ")", ";", "\n">>
L_throw_none == <<"void", " ", "f", "(", ")", " ", "throw", "(", ")", ";", "\n">>
L_throw_noexcept ==
    <<"void", " ", "f", "(", ")", " ", "throw", "(", "A", ")", " ", "noexcept", ";", "\n">>


TopLib == {L_blank, L_doc, L_doc_open, L_doc_close, L_doc_slashes, L_add, L_f_open,
           L_close, L_forward, L_class_Foo, L_class_end, L_var_x, L_namespace,
           L_enum, L_g_indented, L_add_open, L_class_bare}

BodyLib == {L_public, L_ctor, L_dtor, L_copy_unnamed, L_move_unnamed, L_copy_named,
            L_move_named, L_member_x, L_member_f_open, L_member_close, L_member_doc,
            L_blank, L_class_end, L_g_indented}

TestLib == {L_test, L_expect, L_close, L_var_x, L_doc, L_blank, L_class_Foo, L_f_open}

\* Declarations with exception information, read at top level and as the
\* first member of a class.
ExceptionLib == {L_noexcept, L_throw_two, L_throw_none, L_throw_noexcept}

\* Files that tell the frameworks apart: one include, two includes in either
\* priority, a test macro with and without an include.
DetectFiles ==
    {<<L_include_catch2>>, <<L_include_doctest>>, <<L_include_boost>>,
     <<L_include_cppunit>>, <<L_test>>,
     <<L_include_cppunit, L_test>>, <<L_test, L_include_boost>>,
     <<L_include_boost, L_include_gtest>>, <<L_include_doctest, L_include_catch2>>,
     <<L_include_cppunit, L_include_boost>>}

L_member_inline == <<"    ", "void", " ", "f", "(", ")", " ", "{", "}", "\n">>

\* Files with whole function bodies: a definition at top level holding a
\* declaration, a member definition with its body on the following lines
\* and one with its body on the declaration line, each followed by a member.
BodyFiles ==
    {<<L_f_open, L_add, L_close>>,
     <<L_class_Foo, L_member_f_open, L_g_indented, L_member_close, L_member_x,
       L_class_end>>,
     <<L_class_Foo, L_member_inline, L_member_x, L_class_end>>}

L_class_oneline == <<"class", " ", "Foo", " ", "{", "}", ";", "\n">>

\* Files with a whole class followed by a declaration: the class closed on
\* its opening line and closed on the next line.
ClassExitFiles ==
    {<<L_class_oneline, L_add>>, <<L_class_Foo, L_class_end, L_add>>}

L_plain_comment == <<"/", "*", " ", "c", " ", "*/", "\n">>
L_open_brace == <<"{", "\n">>
L_add_starslash == <<"A", " ", "add", "(", "int", " ", "*/", "a", ",", " ", "int", " ", "b", ")", ";", "\n">>
L_include_boost_slashes ==
    <<"#", "include", " ", "<", "boost", "/", "test", "//", "unit_test", ".", "hpp", ">", "\n">>

L_member_const_wide == <<"    ", "const", "   ", "x", ";", "\n">>
L_member_static_const_wide ==
    <<"    ", "static", " ", "const", "   ", "x", ";", "\n">>

\* Texts in which a lexeme continues the one before it: a plain comment
\* between a class head and its brace, a parameter name after "*/", an
\* include path with a doubled "/"; and members whose keyword is followed
\* by a run of three spaces, which the variable pattern shares among the
\* keyword's whitespace, the type group and the whitespace before the name.
AdjacentLexemeFiles ==
    {<<L_class_bare, L_plain_comment, L_open_brace>>,
     <<L_add_starslash>>,
     <<L_include_boost_slashes, L_add>>,
     <<L_class_Foo, L_member_const_wide>>,
     <<L_class_Foo, L_member_static_const_wide>>}

\* A class whose first member is a declaration of operator=.
AssignmentLib == {L_assign_copy, L_assign_move, L_assign_copy_void,
                  L_assign_move_void, L_assign_move_const, L_assign_int}
AssignmentFiles == {<<L_class_Foo, d>> : d \in AssignmentLib}

\* A class whose first member is a variable with a default value.
InitializerFiles == {<<L_class_Foo, L_member_x_init>>}

\* A member function whose body opens two blocks on its first line and
\* closes both on one line.
NestedBodyFiles ==
    {<<L_class_Foo, L_member_f_if, L_member_close2, L_class_end>>}

L_member_add_open == <<"    ", "int", " ", "add", "(", "int", " ", "a", ",", "\n">>
L_member_add_rest == <<"    ", "    ", "int", " ", "b", ")", ";", "\n">>
L_member_int == <<"    ", "int", "\n">>
L_member_x_rest == <<"    ", "    ", "x", ";", "\n">>

\* Classes with members declared over two lines: after a constructor, a
\* function whose parameter list continues on the next line and a variable
\* whose name is on the line after its type; and such a variable alone.
MultiLineFiles ==
    {<<L_class_Foo, L_ctor, L_member_add_open, L_member_add_rest, L_member_int,
       L_member_x_rest>>,
     <<L_class_Foo, L_member_int, L_member_x_rest, L_class_end>>}

\* The number of lines drawn freely from a library.
MaxLines == 2

SeqsUpTo(S, n) == UNION {[1..k -> S] : k \in 0..n}

Files ==
    SeqsUpTo(TopLib, MaxLines)
    \cup {<<L_class_Foo>> \o b : b \in SeqsUpTo(BodyLib, MaxLines)}
    \cup {<<L_include_gtest>> \o t : t \in SeqsUpTo(TestLib, MaxLines)}
    \cup DetectFiles
    \cup BodyFiles
    \cup ClassExitFiles
    \cup NestedBodyFiles
    \cup AssignmentFiles
    \cup AdjacentLexemeFiles
    \cup InitializerFiles
    \cup MultiLineFiles
    \cup {<<d>> : d \in ExceptionLib}
    \cup {<<L_class_Foo, d>> : d \in ExceptionLib}

\* File names, as lexemes: the pieces between the dots, and the dots.
N_t_h == <<"t", ".", "h">>
N_T_HPP == <<"T", ".", "HPP">>
N_t_cpp == <<"t", ".", "cpp">>
N_t_txt == <<"t", ".", "txt">>
N_Makefile == <<"Makefile">>

FileNames == {N_t_h, N_T_HPP, N_t_cpp, N_t_txt, N_Makefile}

\* The file system: t.h holds any of the input files, the other names a
\* small file.
SmallFiles == {<<>>, <<L_var_x>>, <<L_close>>, <<L_ctor>>}

\* The files after which a generator is called again: a file that leaves
\* nothing behind, one that ends inside a class, one that ends inside a
\* namespace and a test file.
EarlierFiles ==
    {<<L_var_x>>, <<L_class_Foo, L_member_x>>, <<L_namespace>>,
     <<L_include_gtest, L_test>>}

Contents(name) == IF name = N_t_h THEN Files ELSE SmallFiles

\* str.lower() on the pieces of the file names
Lower(w) ==
    CASE w = "T" -> "t"
      [] w = "HPP" -> "hpp"
      [] w = "Makefile" -> "makefile"
      [] OTHER -> w

\* ext = filename.split('.')[-1].lower()
Extension(name) == Lower(name[Len(name)])

\* The allowlist of parse_header
HeaderExtensions_WithText == {"h", "hpp", "hh", "hxx", "txt"}

HeaderExtensions == {"h", "hpp", "hh", "hxx"}

\* The allowlist of parse_source
SourceExtensions == {"h", "hpp", "hh", "hxx", "cpp", "cc", "cxx", "c++"}

(***************************************************************************)
(* State.                                                                  *)
(***************************************************************************)

VARIABLES
    gen,                \* the generator object's class
    enhance_existing,   \* self.enhance_existing
    current_class,      \* self.current_class
    current_namespace,  \* self.current_namespace
    is_test_file,       \* self.is_test_file
    detected_framework, \* self.detected_framework
    pc,                 \* "idle", "top", "class", "test", "done" or "processed"
    lines,              \* the lines read from the file
    output,             \* the output list
    i,                  \* the current line index (1-based)
    inside_class,
    class_brace_depth,
    in_function_body,
    prev_access_specifier_line,
    last_was_decl,
    pass,               \* 1 for the first run, 2 for the run on its own output
    log,                \* history: one record per loop iteration of the pass
    filename,           \* the argument of the last parse_header / parse_source call
    method,             \* the method of the last call made on the generator
    raised,             \* the exception the last call raised, or None
    opened,             \* TRUE when the last call opened its file
    caller,             \* position of the calling code: "idle", "loop", "returned",
                        \* "raised", "printed" or "exited"
    root,               \* the directory / project_root argument, a path
    directory,          \* the names of the files in the directory /d
    subdirs,            \* the names of the directories in the project root /p
    output_dir,         \* the output_dir argument
    dry_run,            \* the dry_run argument / args.dry_run
    cpp_files,          \* the list find_cpp_files returned
    file_idx,           \* position of the `for file_path in cpp_files` loop
    results,            \* the results dict: its entries <<key, success, message>>
                        \* in the order of the keys' first assignment
    written,            \* the files written, a set of <<path, list written>>
    args,               \* the parsed command line of main
    exit_code,          \* <<code>> after sys.exit(code), <<>> without a call
    stdout,             \* what main printed, one element per print call
    assertions,         \* the argument of analyze_test_coverage
    coverage_points     \* the list analyze_test_coverage returned

vars == <<gen, enhance_existing, current_class, current_namespace, is_test_file,
          detected_framework, pc, lines, output, i, inside_class, class_brace_depth,
          in_function_body, prev_access_specifier_line, last_was_decl, pass, log,
          filename, method, raised, opened, caller, root, directory, subdirs,
          output_dir, dry_run, cpp_files, file_idx, results, written, args,
          exit_code, stdout, assertions, coverage_points>>

\* The state of the code that calls the generator.
callervars == <<caller, root, directory, subdirs, output_dir, dry_run, cpp_files,
                file_idx, results, written, args, exit_code, stdout, assertions,
                coverage_points>>

objvars == <<gen, enhance_existing>>

callvars == <<filename, method, raised, opened>>

\* No directory run, command line or coverage analysis: the generator is
\* called directly.
NoCaller ==
    /\ caller = "idle"
    /\ root = <<>>
    /\ directory = {}
    /\ subdirs = {}
    /\ output_dir = <<>>
    /\ dry_run = FALSE
    /\ cpp_files = <<>>
    /\ file_idx = 0
    /\ results = <<>>
    /\ written = {}
    /\ args = None
    /\ exit_code = <<>>
    /\ stdout = <<>>
    /\ assertions = <<>>
    /\ coverage_points = <<>>

\* HeaderDoxygenGenerator.__init__(enhance_existing) and
\* CppSourceGenerator.__init__() (which passes no flag to the base class)
Init ==
    /\ gen \in {"HeaderDoxygenGenerator", "CppSourceGenerator"}
    /\ enhance_existing \in BOOLEAN
    /\ gen = "CppSourceGenerator" => enhance_existing = FALSE
    /\ current_class = None
    /\ current_namespace = None
    /\ is_test_file = FALSE
    /\ detected_framework = None
    /\ pc = "idle"
    /\ lines = <<>>
    /\ output = <<>>
    /\ i = 1
    /\ inside_class = FALSE
    /\ class_brace_depth = 0
    /\ in_function_body = 0
    /\ prev_access_specifier_line = <<>>
    /\ last_was_decl = FALSE
    /\ pass = 1
    /\ log = <<>>
    /\ filename = <<>>
    /\ method = None
    /\ raised = None
    /\ opened = FALSE
    /\ NoCaller

\* The locals of a pass before its loop starts.
BeginLoop(f) ==
    /\ lines' = f
    /\ output' = <<>>
    /\ i' = 1
    /\ inside_class' = FALSE
    /\ class_brace_depth' = 0
    /\ in_function_body' = 0
    /\ prev_access_specifier_line' = <<>>
    /\ last_was_decl' = FALSE
    /\ log' = <<>>

\* HeaderDoxygenGenerator.parse_header(filename) up to the main loop, for a
\* file with a header extension holding the lines f
BeginParseHeader(f) ==
    /\ BeginLoop(f)
    /\ pc' = "top"
    /\ UNCHANGED <<current_class, current_namespace, is_test_file, detected_framework>>

\* CppSourceGenerator.parse_source(filename) up to the loop it dispatches to
BeginParseSource(f) ==
    LET Dispatch(framework) ==
            /\ detected_framework' = framework
            /\ is_test_file' = (framework # None)
            /\ pc' = IF framework # None THEN "test" ELSE "top"
    IN  /\ BeginLoop(f)
        /\ Dispatch(detect_test_framework(f))
        /\ UNCHANGED <<current_class, current_namespace>>

\* raise ValueError(...): the call ends before open(), nothing is assigned
RaiseValueError ==
    /\ raised' = "ValueError"
    /\ opened' = FALSE
    /\ UNCHANGED <<current_class, current_namespace, is_test_file, detected_framework,
                   pc, lines, output, i, inside_class, class_brace_depth,
                   in_function_body, prev_access_specifier_line, last_was_decl, log>>

\* with open(filename, 'r') as f: lines = f.readlines()
OpenFile ==
    /\ raised' = None
    /\ opened' = TRUE

\* A call is made on a generator that is not inside a call.  After the
\* first call the generator keeps current_class, current_namespace,
\* is_test_file and detected_framework; the later calls of a run are made
\* on the small files, after a call on one of EarlierFiles.
BetweenCalls ==
    /\ pass = 1
    /\ \/ pc = "idle"
       \/ pc \in {"done", "processed"} /\ lines \in EarlierFiles

LaterCallBound(name) == pc = "idle" \/ name # N_t_h

\* HeaderDoxygenGenerator.parse_header(filename) up to its main loop;
\* CppSourceGenerator inherits the method.
ParseHeader ==
    /\ BetweenCalls
    /\ \E name \in FileNames :
          /\ filename' = name
          /\ method' = "parse_header"
          /\ IF Extension(name) \notin HeaderExtensions
             THEN RaiseValueError
             ELSE /\ LaterCallBound(name)
                  /\ OpenFile
                  /\ \E f \in Contents(name) : BeginParseHeader(f)
    /\ UNCHANGED <<objvars, callervars, pass>>

\* CppSourceGenerator.parse_source(filename) up to the loop it dispatches to
ParseSource ==
    /\ gen = "CppSourceGenerator"
    /\ BetweenCalls
    /\ \E name \in FileNames :
          /\ filename' = name
          /\ method' = "parse_source"
          /\ IF Extension(name) \notin SourceExtensions
             THEN RaiseValueError
             ELSE /\ LaterCallBound(name)
                  /\ OpenFile
                  /\ \E f \in Contents(name) : BeginParseSource(f)
    /\ UNCHANGED <<objvars, callervars, pass>>

LogEntry(loop, r) ==
    [loop |-> loop, at |-> i, next |-> r.i, branch |-> r.branch, doc |-> r.doc,
     out_at |-> Len(output), appended |-> Len(r.append),
     current_class |-> current_class, current_namespace |-> current_namespace]

\* The assignments of an iteration of the main loop with result r.
ApplyTopLevel(r) ==
    /\ output' = output \o r.append
    /\ i' = r.i
    /\ current_class' = r.current_class
    /\ current_namespace' = r.current_namespace
    /\ last_was_decl' = r.last_was_decl
    /\ inside_class' = (inside_class \/ r.enter)
    /\ class_brace_depth' = IF r.enter THEN 1 ELSE class_brace_depth
    /\ in_function_body' = IF r.enter THEN 0 ELSE in_function_body
    /\ prev_access_specifier_line' =
          IF r.enter THEN <<>> ELSE prev_access_specifier_line
    /\ pc' = IF r.enter /\ r.i <= Len(lines) THEN "class" ELSE "top"
    /\ log' = Append(log, LogEntry("top", r))

\* One iteration of the main loop (`while i < len(lines)`).  In the class
\* branch the class-body loop runs inside this iteration; its iterations are
\* the ClassBodyStep action, entered when lines remain.
TopLevelStep ==
    /\ pc = "top" /\ i <= Len(lines)
    /\ ApplyTopLevel(IF method = "parse_header"
                     THEN HeaderTopLevel(lines, i, output, current_class,
                                         current_namespace, enhance_existing)
                     ELSE InternalTopLevel(lines, i, output, current_class,
                                           current_namespace))
    /\ UNCHANGED <<objvars, callvars, callervars, is_test_file, detected_framework,
                   lines, pass>>

\* The locals of the class-body loop.
ClassBodyState ==
    [class_brace_depth |-> class_brace_depth,
     in_function_body |-> in_function_body,
     prev_access_specifier_line |-> prev_access_specifier_line]

\* The assignments of an iteration of the class-body loop with result r.
ApplyClassBody(r) ==
    /\ output' = output \o r.append
    /\ i' = r.i
    /\ class_brace_depth' = r.class_brace_depth
    /\ in_function_body' = r.in_function_body
    /\ prev_access_specifier_line' = r.prev_access_specifier_line
    /\ last_was_decl' = IF r.keep_last_was_decl THEN last_was_decl
                        ELSE r.last_was_decl
    /\ inside_class' = ~r.exit
    /\ current_class' = IF r.exit THEN None ELSE current_class
    /\ pc' = IF r.exit \/ r.i > Len(lines) THEN "top" ELSE "class"
    /\ log' = Append(log, LogEntry("class", r))

\* One iteration of the class-body loop (`while i < len(lines) and inside_class`).
ClassBodyStep ==
    /\ pc = "class" /\ i <= Len(lines) /\ inside_class
    /\ ApplyClassBody(IF method = "parse_header"
                      THEN HeaderClassBody(lines, i, output, current_class,
                                           ClassBodyState)
                      ELSE InternalClassBody(lines, i, output, current_class,
                                             ClassBodyState))
    /\ UNCHANGED <<objvars, callvars, callervars, current_namespace, is_test_file,
                   detected_framework, lines, pass>>

\* The assignments of an iteration of the loop of _parse_test_file.
ApplyTestFile(r) ==
    /\ output' = output \o r.append
    /\ i' = r.i
    /\ log' = Append(log, LogEntry("test", r))

\* One iteration of the loop of _parse_test_file.
TestFileStep ==
    /\ pc = "test" /\ i <= Len(lines)
    /\ ApplyTestFile(TestFileIteration(lines, i, output, detected_framework))
    /\ UNCHANGED <<objvars, callvars, callervars, current_class, current_namespace,
                   is_test_file, detected_framework, pc, lines, inside_class,
                   class_brace_depth, in_function_body, prev_access_specifier_line,
                   last_was_decl, pass>>

\* The end of a pass: trailing blank elements removed, '\n' appended, the
\* list returned.
Finish ==
    /\ pc \in {"top", "test"} /\ i > Len(lines)
    /\ output' = FinishOutput(output)
    /\ pc' = "done"
    /\ UNCHANGED <<objvars, callvars, callervars, current_class, current_namespace, is_test_file,
                   detected_framework, lines, i, inside_class, class_brace_depth,
                   in_function_body, prev_access_specifier_line, last_was_decl,
                   pass, log>>

\* f.writelines(output_lines) followed by f.readlines(): the text is split
\* again after every "\n".
RECURSIVE ReadLines(_)
ReadLines(text) ==
    IF text = <<>> THEN <<>>
    ELSE IF Has(text, "\n")
    THEN <<SubSeq(text, 1, IndexOf(text, "\n"))>>
         \o ReadLines(SubSeq(text, IndexOf(text, "\n") + 1, Len(text)))
    ELSE <<text>>

\* The transformer run again on its own output: the result is written to
\* the file t.h and a newly constructed generator of the same class parses
\* it with the same method.
SecondPass ==
    LET Dispatch(framework) ==
            /\ detected_framework' = framework
            /\ is_test_file' = (framework # None)
            /\ pc' = IF framework # None THEN "test" ELSE "top"
        Reparse(f) ==
            IF method = "parse_header"
            THEN /\ BeginLoop(f)
                 /\ pc' = "top"
                 /\ is_test_file' = FALSE
                 /\ detected_framework' = None
            ELSE /\ BeginLoop(f)
                 /\ Dispatch(detect_test_framework(f))
    IN  /\ pc = "done" /\ pass = 1 /\ raised = None
        /\ pass' = 2
        /\ current_class' = None
        /\ current_namespace' = None
        /\ Reparse(ReadLines(Flatten(output)))
        /\ filename' = N_t_h
        /\ OpenFile
        /\ UNCHANGED <<objvars, callervars, method>>

\* The lists of lines process_lines is called with: the first call of a
\* generator with any of the input files, a later call with a small one.
ProcessLinesInputs == IF pc = "idle" THEN Files ELSE SmallFiles

\* The assignments process_lines has made when it returns the state st
ProcessLinesReturns(st) ==
    /\ output' = st.output_lines
    /\ current_class' = st.current_class
    /\ current_namespace' = st.current_namespace

\* HeaderDoxygenGenerator.process_lines(lines), which CppSourceGenerator
\* inherits: the whole call.  It reads no file and raises nothing.
ProcessLines ==
    /\ BetweenCalls
    /\ method' = "process_lines"
    /\ raised' = None
    /\ opened' = FALSE
    /\ \E f \in ProcessLinesInputs :
          /\ lines' = f
          /\ ProcessLinesReturns(process_lines(f, current_class, current_namespace))
    /\ pc' = "processed"
    /\ i' = 1
    /\ inside_class' = FALSE
    /\ class_brace_depth' = 0
    /\ in_function_body' = 0
    /\ prev_access_specifier_line' = <<>>
    /\ last_was_decl' = FALSE
    /\ log' = <<>>
    /\ UNCHANGED <<objvars, callervars, filename, is_test_file, detected_framework,
                   pass>>

Next ==
    \/ ParseHeader
    \/ ParseSource
    \/ ProcessLines
    \/ TopLevelStep
    \/ ClassBodyStep
    \/ TestFileStep
    \/ Finish
    \/ SecondPass

Spec == Init /\ [][Next]_vars

\* An iteration of one of the three loops.
LoopStep == TopLevelStep \/ ClassBodyStep \/ TestFileStep

\* The guards of the loop iterations and of the return: the conditions the
\* code tests before the next iteration or the return after the last one.
StepEnabled ==
    \/ pc = "top" /\ i <= Len(lines)
    \/ pc = "class" /\ i <= Len(lines) /\ inside_class
    \/ pc = "test" /\ i <= Len(lines)
    \/ pc \in {"top", "test"} /\ i > Len(lines)

\* The loops are sequential code: once a pass has started, the iteration
\* whose guard holds, and the return after the last one, is taken.  This is
\* weak fairness of LoopStep \/ Finish with its enabling condition written
\* as the guards.
FairSpec ==
    /\ Spec
    /\ ([]<>(~StepEnabled) \/ []<><<LoopStep \/ Finish>>_vars)

(***************************************************************************)
(* Directory and project mode: DirectoryProcessor.  A path is the list of  *)
(* its lexemes; a printed line or a message is the list of its pieces,     *)
(* each piece a string, a path, or [repr |-> l] for the repr of a list l   *)
(* of strings.                                                             *)
(***************************************************************************)

\* The files a directory can hold.
N_a_cpp == <<"a", ".", "cpp">>
N_b_h == <<"b", ".", "h">>
N_c_cpp == <<"c", ".", "cpp">>
N_d_cpp == <<"d", ".", "cpp">>
N_e_cpp == <<"e", ".", "cpp">>
N_n_txt == <<"n", ".", "txt">>

DirectoryNames == {N_a_cpp, N_b_h, N_c_cpp, N_d_cpp, N_e_cpp, N_n_txt}

NoPath == <<>>

\* The paths given as arguments: the directory /d, which holds the files
\* of `directory`; the project root /p, which holds the directories of
\* `subdirs`; the output directory /out; the file /f.h; and /x, at which
\* there is nothing.
D_d == <<"/", "d">>
P_root == <<"/", "p">>
D_out == <<"/", "out">>
D_file == <<"/", "f", ".", "h">>
D_missing == <<"/", "x">>

DirectoryPaths == {D_d, D_file, D_missing}

ProjectPaths == {P_root, D_file, D_missing}

\* Path.exists() and Path.is_dir() on the argument paths
Exists(path) == path # D_missing

IsDir(path) == path \in {D_d, P_root, D_out}

IsSlash(t) == t = "/"

\* os.path.basename(path)
basename(path) == SubSeq(path, Last(path, IsSlash) + 1, Len(path))

\* str(Path(root) / file)
PathIn(dir, name) == dir \o <<"/">> \o name

\* os.path.relpath(file_path, directory) for a file of the directory
relpath(file_path, dir) == SubSeq(file_path, Len(dir) + 2, Len(file_path))

\* The directories a project root can hold, and the files of each.  The
\* entry `test` of the root is a file.
ProjectDirNames == {"include", "inc", "src", "tests", "docs"}

ProjectFiles(dir_name) ==
    CASE dir_name = "include" -> {N_b_h}
      [] dir_name = "src" -> {N_a_cpp, N_c_cpp, N_d_cpp, N_n_txt}
      [] dir_name = "tests" -> {N_a_cpp, N_e_cpp}
      [] dir_name = "docs" -> {N_n_txt}
      [] OTHER -> {}

\* What each file holds: a.cpp ends inside a class, e.cpp is a test file.
FileLines(path) ==
    CASE basename(path) = N_a_cpp -> <<L_class_Foo, L_member_x>>
      [] basename(path) = N_b_h -> <<L_ctor>>
      [] basename(path) = N_e_cpp -> <<L_include_gtest, L_test>>
      [] OTHER -> <<L_var_x>>

\* A file named c.cpp cannot be opened for reading; d.cpp cannot be opened
\* for writing where it is, and can be written in the output directory.
Readable(path) == basename(path) # N_c_cpp

Writable(path) ==
    path \notin {N_d_cpp, PathIn(D_d, N_d_cpp),
                 PathIn(PathIn(P_root, <<"src">>), N_d_cpp)}

\* str(e) of the PermissionError open(path) raises
PermissionDenied(path) == <<"[Errno 13] Permission denied: '", path, "'">>

\* str(e) of the ValueError parse_source raises
UnsupportedSource == <<"Only C++ header and source files are supported">>

\* ord() of the first character of a name
Ord(c) ==
    CASE c = "a" -> 97 [] c = "b" -> 98 [] c = "c" -> 99 [] c = "d" -> 100
      [] c = "e" -> 101 [] c = "n" -> 110 [] c = "t" -> 116 [] c = "T" -> 84
      [] c = "M" -> 77 [] OTHER -> 0

\* sorted() on paths of one directory whose names differ in the first character
RECURSIVE sorted(_)
sorted(paths) ==
    IF paths = {} THEN <<>>
    ELSE LET least == CHOOSE x \in paths :
                         \A y \in paths : Ord(basename(x)[1]) <= Ord(basename(y)[1])
         IN  <<least>> \o sorted(paths \ {least})

\* Path(file).suffix.lower()
suffix(name) ==
    IF Len(name) >= 3 /\ name[Len(name) - 1] = "."
    THEN <<".", Lower(name[Len(name)])>>
    ELSE <<>>

\* DirectoryProcessor.CPP_EXTENSIONS
CPP_EXTENSIONS ==
    {<<".", e>> : e \in {"h", "hpp", "hh", "hxx", "cpp", "cc", "cxx", "c++"}}

\* str(e) of the ValueError find_cpp_files raises, <<>> when it raises none
DirectoryError(path) ==
    IF ~Exists(path) THEN <<"Directory does not exist: ", path>>
    ELSE IF ~IsDir(path) THEN <<"Path is not a directory: ", path>>
    ELSE <<>>

\* DirectoryProcessor.find_cpp_files(directory) for an existing directory
\* that holds the files named (and no directory, so that both values of
\* `recursive` give the same list)
find_cpp_files(dir, names) ==
    sorted({PathIn(dir, file) : file \in {f \in names : suffix(f) \in CPP_EXTENSIONS}})

\* os.path.join(output_dir, os.path.relpath(file_path, directory)), or the
\* file itself when no output directory is given
OutPath(out_dir, file_path, dir) ==
    IF out_dir # NoPath THEN PathIn(out_dir, relpath(file_path, dir)) ELSE file_path

\* results[file_path] = (success, message) with every entry replaced
SetResult_Only(res, file_path, success, message) ==
    <<<<file_path, success, message>>>>

\* results[file_path] = (success, message): the dict keeps its keys in the
\* order of their first assignment
SetResult(res, file_path, success, message) ==
    IF \E k \in 1..Len(res) : res[k][1] = file_path
    THEN [k \in 1..Len(res) |-> IF res[k][1] = file_path
                                THEN <<file_path, success, message>> ELSE res[k]]
    ELSE Append(res, <<file_path, success, message>>)

\* results.update(dir_results)
RECURSIVE Update(_, _)
Update(res, dir_results) ==
    IF dir_results = <<>> THEN res
    ELSE Update(SetResult(res, dir_results[1][1], dir_results[1][2], dir_results[1][3]),
                Tail(dir_results))

\* with open(path, 'w') as f: f.writelines(output_lines)
WriteFile(files, path, output_lines) ==
    {w \in files : w[1] # path} \cup {<<path, output_lines>>}

\* DirectoryProcessor.__init__: one CppSourceGenerator for the whole run
BatchInit ==
    /\ gen = "CppSourceGenerator"
    /\ enhance_existing = FALSE
    /\ current_class = None
    /\ current_namespace = None
    /\ is_test_file = FALSE
    /\ detected_framework = None
    /\ pc = "idle"
    /\ lines = <<>>
    /\ output = <<>>
    /\ i = 1
    /\ inside_class = FALSE
    /\ class_brace_depth = 0
    /\ in_function_body = 0
    /\ prev_access_specifier_line = <<>>
    /\ last_was_decl = FALSE
    /\ pass = 1
    /\ log = <<>>
    /\ filename = <<>>
    /\ method = None
    /\ raised = None
    /\ opened = FALSE
    /\ NoCaller

\* The variables of the scanner's loops, which a directory run does not show.
loopvars == <<pc, i, inside_class, class_brace_depth, in_function_body,
              prev_access_specifier_line, last_was_decl, pass, log>>

\* What a run of the processor works on: the fields of its generator, the
\* record of the generator's last call, the results dict, the files written
\* and the lines printed.
RunState ==
    [current_class |-> current_class, current_namespace |-> current_namespace,
     is_test_file |-> is_test_file, detected_framework |-> detected_framework,
     filename |-> filename, method |-> method, raised |-> raised, opened |-> opened,
     lines |-> lines, output |-> output,
     results |-> results, written |-> written, stdout |-> stdout]

\* The assignments of a run that has reached the state r.
ApplyRun(r) ==
    /\ current_class' = r.current_class
    /\ current_namespace' = r.current_namespace
    /\ is_test_file' = r.is_test_file
    /\ detected_framework' = r.detected_framework
    /\ filename' = r.filename
    /\ method' = r.method
    /\ raised' = r.raised
    /\ opened' = r.opened
    /\ lines' = r.lines
    /\ output' = r.output
    /\ results' = r.results
    /\ written' = r.written
    /\ stdout' = r.stdout

\* except Exception as e: results[file_path] = (False, f"Error: {str(e)}")
FileFailed(run, file_path, e, message) ==
    [run EXCEPT !.raised = e,
                !.results = SetResult(run.results, file_path, FALSE,
                                      <<"Error: ">> \o message)]

\* The message of a file that was written
SuccessMessage(r) ==
    <<"Processed successfully">>
    \o (IF r.is_test_file THEN <<" (Test file: ", r.detected_framework, ")">>
        ELSE <<>>)

\* The generator after parse_source read the file and left r behind
Parsed(run, file_path, r) ==
    [run EXCEPT !.opened = TRUE,
                !.lines = FileLines(file_path),
                !.output = r.output,
                !.current_class = r.current_class,
                !.current_namespace = r.current_namespace,
                !.is_test_file = r.is_test_file,
                !.detected_framework = r.detected_framework]

\* The try block after parse_source returned
FileParsed(run, file_path, out_path, dry) ==
    IF dry
    THEN [run EXCEPT !.raised = None,
                     !.results = SetResult(run.results, file_path, TRUE,
                                           <<"Would be processed (dry run)">>)]
    ELSE IF Writable(out_path)
    THEN [run EXCEPT !.raised = None,
                     !.written = WriteFile(run.written, out_path, run.output),
                     !.results = SetResult(run.results, file_path, TRUE,
                                           SuccessMessage(run))]
    ELSE FileFailed(run, file_path, "PermissionError", PermissionDenied(out_path))

\* parse_source raised before it assigned anything
FileNotParsed(run, file_path, e, message) ==
    [FileFailed(run, file_path, e, message) EXCEPT !.opened = FALSE]

\* self.generator.parse_source(file_path) is called
Called(run, file_path) ==
    [run EXCEPT !.filename = file_path, !.method = "parse_source"]

\* One iteration of `for file_path in cpp_files`: the try block and its
\* except clause.
AfterFile(run, file_path, dir, out_dir, dry) ==
    IF Extension(file_path) \notin SourceExtensions
    THEN FileNotParsed(Called(run, file_path), file_path, "ValueError",
                       UnsupportedSource)
    ELSE IF ~Readable(file_path)
    THEN FileNotParsed(Called(run, file_path), file_path, "PermissionError",
                       PermissionDenied(file_path))
    ELSE FileParsed(Parsed(Called(run, file_path), file_path,
                           parse_source(FileLines(file_path), run.current_class,
                                        run.current_namespace)),
                    file_path, OutPath(out_dir, file_path, dir), dry)

\* return {'_info': (False, f"No C++ files found in {directory}")}
NoFilesInfo(dir) == <<<<"_info">>, FALSE, <<"No C++ files found in ", dir>>>>

\* print(f"Found {len(cpp_files)} C++ file(s) to process")
FoundLine(files) == <<"Found ", ToString(Len(files)), " C++ file(s) to process">>

\* process_directory(directory, output_dir, dry_run) up to its loop.  The
\* call raises ValueError when there is no directory at the path.
ProcessDirectory ==
    LET Found(dir, files) ==
            /\ cpp_files' = files
            /\ raised' = None
            /\ IF files = <<>>
               THEN /\ results' = <<NoFilesInfo(dir)>>
                    /\ file_idx' = 0
                    /\ caller' = "returned"
                    /\ UNCHANGED stdout
               ELSE /\ results' = <<>>
                    /\ file_idx' = 1
                    /\ caller' = "loop"
                    /\ stdout' = Append(stdout, FoundLine(files))
        Raised ==
            /\ raised' = "ValueError"
            /\ caller' = "raised"
            /\ UNCHANGED <<cpp_files, file_idx, results, stdout>>
    IN  /\ caller = "idle"
        /\ \E dir \in DirectoryPaths, names \in SUBSET DirectoryNames,
              out \in {NoPath, D_out}, dry \in BOOLEAN :
              /\ dir # D_d => names = {}
              /\ root' = dir
              /\ directory' = names
              /\ output_dir' = out
              /\ dry_run' = dry
              /\ IF DirectoryError(dir) # <<>> THEN Raised
                 ELSE Found(dir, find_cpp_files(dir, names))
        /\ UNCHANGED <<objvars, loopvars, filename, method, opened, current_class,
                       current_namespace, is_test_file, detected_framework, lines,
                       output, written, subdirs, args, exit_code, assertions,
                       coverage_points>>

\* One iteration of `for file_path in cpp_files`
ProcessFile ==
    /\ caller = "loop"
    /\ ApplyRun(AfterFile(RunState, cpp_files[file_idx], root, output_dir, dry_run))
    /\ IF file_idx < Len(cpp_files)
       THEN file_idx' = file_idx + 1 /\ caller' = "loop"
       ELSE file_idx' = file_idx /\ caller' = "returned"
    /\ UNCHANGED <<objvars, loopvars, root, directory, subdirs, output_dir, dry_run,
                   cpp_files, args, exit_code, assertions, coverage_points>>

\* The loop of process_directory from file k of the list on.
RECURSIVE ProcessFiles(_, _, _, _, _, _)
ProcessFiles(run, files, k, dir, out_dir, dry) ==
    IF k > Len(files) THEN run
    ELSE ProcessFiles(AfterFile(run, files[k], dir, out_dir, dry), files, k + 1, dir,
                      out_dir, dry)

\* process_directory(directory, output_dir, dry_run) as a whole call on an
\* existing directory that holds the files named: the dict returned is
\* the field results.
process_directory(run, dir, names, out_dir, dry) ==
    IF find_cpp_files(dir, names) = <<>>
    THEN [run EXCEPT !.results = <<NoFilesInfo(dir)>>]
    ELSE ProcessFiles([run EXCEPT !.results = <<>>,
                                  !.stdout = Append(run.stdout,
                                                    FoundLine(find_cpp_files(dir, names)))],
                      find_cpp_files(dir, names), 1, dir, out_dir, dry)

\* include_dirs + src_dirs with the default lists of process_project
StandardDirs ==
    <<"include", "inc", "includes", "src", "source", "sources", "test", "tests">>

\* dirs_to_process: the standard names at which the root holds a directory
RECURSIVE DirsToProcess(_, _, _)
DirsToProcess(project_root, dir_names, k) ==
    IF k > Len(StandardDirs) THEN <<>>
    ELSE (IF StandardDirs[k] \in dir_names
          THEN <<PathIn(project_root, <<StandardDirs[k]>>)>> ELSE <<>>)
         \o DirsToProcess(project_root, dir_names, k + 1)

\* The dict process_project returns when it found no directory
NoDirsInfo(project_root) ==
    <<<<"_info">>, FALSE,
      <<"No standard source directories found in ", project_root, ". Looked for: ",
        [repr |-> StandardDirs]>>>>

\* [os.path.basename(d) for d in dirs_to_process]
BaseNames(dirs) == [k \in 1..Len(dirs) |-> basename(dirs[k])[1]]

\* results.update(dir_results): the run after process_directory returned
\* the state done to a caller whose dict was res
Merged(res, done) == [done EXCEPT !.results = Update(res, done.results)]

\* for directory in dirs_to_process: results.update(process_directory(...))
RECURSIVE ProcessDirectories(_, _, _, _, _)
ProcessDirectories(run, dirs, k, out_dir, dry) ==
    IF k > Len(dirs) THEN run
    ELSE ProcessDirectories(
             Merged(run.results,
                    process_directory(run, dirs[k], ProjectFiles(basename(dirs[k])[1]),
                                      out_dir, dry)),
             dirs, k + 1, out_dir, dry)

\* process_project(project_root, output_dir=..., dry_run=...) as a whole
\* call on an existing root that holds the directories named
process_project(run, project_root, dir_names, out_dir, dry) ==
    IF DirsToProcess(project_root, dir_names, 1) = <<>>
    THEN [run EXCEPT !.results = <<NoDirsInfo(project_root)>>]
    ELSE ProcessDirectories(
             [run EXCEPT !.results = <<>>,
                         !.stdout = run.stdout
                             \o <<<<"Processing project at: ", project_root>>,
                                  <<"Found directories: ",
                                    [repr |-> BaseNames(DirsToProcess(project_root,
                                                                      dir_names, 1))]>>>>],
             DirsToProcess(project_root, dir_names, 1), 1, out_dir, dry)

\* str(e) of the ValueError process_project raises, <<>> when it raises none
ProjectError(project_root) ==
    IF ~Exists(project_root) THEN <<"Project root does not exist: ", project_root>>
    ELSE <<>>

\* The directories below a root: only /p holds any.
DirsBelow(project_root) ==
    IF project_root = P_root THEN SUBSET ProjectDirNames ELSE {{}}

\* DirectoryProcessor.process_project(project_root, output_dir=..., dry_run=...):
\* the whole call
ProcessProject ==
    /\ caller = "idle"
    /\ \E project_root \in ProjectPaths, out \in {NoPath, D_out}, dry \in BOOLEAN :
          \E dir_names \in DirsBelow(project_root) :
              /\ root' = project_root
              /\ subdirs' = dir_names
              /\ output_dir' = out
              /\ dry_run' = dry
              /\ IF ProjectError(project_root) # <<>>
                 THEN /\ raised' = "ValueError"
                      /\ caller' = "raised"
                      /\ UNCHANGED <<current_class, current_namespace, is_test_file,
                                     detected_framework, filename, method, opened,
                                     lines, output, results, written, stdout>>
                 ELSE /\ caller' = "returned"
                      /\ ApplyRun(process_project(RunState, project_root, dir_names,
                                                  out, dry))
    /\ UNCHANGED <<objvars, loopvars, directory, cpp_files, file_idx, args, exit_code,
                   assertions, coverage_points>>

\* The characters print_results writes outside ASCII, by their code points
CheckMark == "U+2713"
BallotX == "U+2717"
InfoSign == "U+2139U+FE0F"
Arrow == "U+2192"

\* "=" * 80
Rule == "================================================================================"

\* The lines print_results prints for one entry of the dict
EntryLines(entry) ==
    IF entry[1] = <<"_info">>
    THEN << <<"\n", InfoSign, "  ">> \o entry[3] >>
    ELSE << <<IF entry[2] THEN CheckMark ELSE BallotX, " ", entry[1]>> >>
         \o (IF entry[3] # <<>> /\ entry[3] # <<"Processed successfully">>
             THEN << <<"  ", Arrow, " ">> \o entry[3] >>
             ELSE <<>>)

RECURSIVE AllEntryLines(_)
AllEntryLines(res) ==
    IF res = <<>> THEN <<>> ELSE EntryLines(Head(res)) \o AllEntryLines(Tail(res))

\* success_count / failure_count: the entries other than '_info' whose
\* flag is the value given
CountEntries(res, success) ==
    Cardinality({k \in 1..Len(res) : res[k][1] # <<"_info">> /\ res[k][2] = success})

\* DirectoryProcessor.print_results(results): the lines printed
print_results(res) ==
    << <<"\n", Rule>>, <<"Processing Results">>, <<Rule>> >>
    \o AllEntryLines(res)
    \o << <<Rule>>,
          <<"Total: ", ToString(CountEntries(res, TRUE)), " succeeded, ",
            ToString(CountEntries(res, FALSE)), " failed">>,
          <<Rule>> >>

\* DirectoryProcessor.print_results(results) on the dict a call returned
PrintResults ==
    /\ caller = "returned"
    /\ caller' = "printed"
    /\ stdout' = stdout \o print_results(results)
    /\ UNCHANGED <<objvars, loopvars, callvars, current_class, current_namespace,
                   is_test_file, detected_framework, lines, output, root, directory,
                   subdirs, output_dir, dry_run, cpp_files, file_idx, results, written,
                   args, exit_code, assertions, coverage_points>>

BatchNext ==
    \/ ProcessDirectory
    \/ ProcessFile
    \/ ProcessProject
    \/ PrintResults

BatchSpec == BatchInit /\ [][BatchNext]_vars

(***************************************************************************)
(* The command line: main() with -f, -d or -p.                             *)
(***************************************************************************)

N_missing == <<"m", ".", "h">>
N_out == <<"o", ".", "h">>

\* os.path.isfile(input_file)
IsFile(name) == name # N_missing

\* The values of -f (NoPath when absent), -o (NoPath when absent)
InputFiles == {N_t_h, N_T_HPP, N_t_txt, N_Makefile, N_a_cpp, N_c_cpp, N_e_cpp, N_missing}

OutputFiles == {N_out, N_d_cpp}

\* The command lines without -d and -p
SingleFileLines ==
    [input_file : InputFiles \cup {NoPath}, directory : {NoPath}, project : {NoPath},
     output : OutputFiles \cup {NoPath}, dry_run : BOOLEAN,
     enhance_existing : BOOLEAN, recursive : {TRUE}]

\* The command lines with -d, -p or both
DirectoryLines ==
    {a \in [input_file : {NoPath, N_t_h}, directory : {NoPath, D_d, D_missing},
            project : {NoPath, P_root, D_missing}, output : {NoPath, D_out},
            dry_run : BOOLEAN, enhance_existing : BOOLEAN, recursive : BOOLEAN] :
        a.directory # NoPath \/ a.project # NoPath}

CommandLines == SingleFileLines \cup DirectoryLines

\* What the directory /d and the project root /p hold when main runs
CliDirectories == {{}, DirectoryNames}

CliSubdirs == {{}, {"include", "inc", "src", "tests"}}

\* The keyword parameters the constructor of each class accepts beside self
InitParams(class) ==
    IF class \in {"HeaderDoxygenGenerator", "DirectoryProcessor"}
    THEN {"enhance_existing"} ELSE {}

\* CppSourceGenerator(...) / HeaderDoxygenGenerator(...) /
\* DirectoryProcessor(...) called with the keywords: the exception the call
\* raises, or None
Construct(class, keywords) ==
    IF keywords \subseteq InitParams(class) THEN None ELSE "TypeError"

\* str(e) of the TypeError the constructor call raises for a keyword it
\* does not accept
UnexpectedKeyword(class, keyword) ==
    class \o ".__init__() got an unexpected keyword argument '" \o keyword \o "'"

\* The command line runs in a new process: nothing constructed yet.
CliInit == BatchInit

\* print(...) calls followed by sys.exit(code), or by the return of main
\* when code is <<>>
Exit(code, printed) ==
    /\ exit_code' = code
    /\ stdout' = printed

\* The generator's fields and the lines read stay as they are.
NothingParsed ==
    UNCHANGED <<current_class, current_namespace, is_test_file, detected_framework,
                lines, output>>

\* Single-file mode calls no method of a DirectoryProcessor.
NoDirectoryRun ==
    UNCHANGED <<root, directory, subdirs, output_dir, dry_run, results>>

\* The path main writes to
OutputFile(a) == IF a.output # NoPath THEN a.output ELSE a.input_file

\* What main prints between parse_source and the output logic
ProcessingMessages(a, r) ==
    (IF r.is_test_file
     THEN <<<<"Detected test file using ", r.detected_framework, " framework">>>>
     ELSE <<>>)
    \o (IF a.enhance_existing THEN <<<<"Enhanced existing Doxygen comments">>>>
        ELSE <<>>)

\* The output logic of main: the dry run, or the write and its failure
OutputLogic(a, r) ==
    IF a.dry_run
    THEN /\ Exit(<<>>, ProcessingMessages(a, r) \o <<Flatten(r.output)>>)
         /\ raised' = None
         /\ UNCHANGED written
    ELSE IF Writable(OutputFile(a))
    THEN /\ written' = WriteFile(written, OutputFile(a), r.output)
         /\ Exit(<<>>, ProcessingMessages(a, r)
                       \o <<<<"Doxygen comments added to ", OutputFile(a)>>>>)
         /\ raised' = None
    ELSE /\ UNCHANGED written
         /\ Exit(<<4>>, ProcessingMessages(a, r)
                        \o << <<"Error writing to output file: ">>
                              \o PermissionDenied(OutputFile(a)) >>)
         /\ raised' = "PermissionError"

\* main after parse_source read the file and left r behind
MainParsed(a, r) ==
    /\ opened' = TRUE
    /\ lines' = FileLines(a.input_file)
    /\ output' = r.output
    /\ current_class' = r.current_class
    /\ current_namespace' = r.current_namespace
    /\ is_test_file' = r.is_test_file
    /\ detected_framework' = r.detected_framework
    /\ OutputLogic(a, r)

\* except Exception as e: print(f"Error processing file: {e}"); sys.exit(3)
ProcessingFailed(e, message) ==
    /\ Exit(<<3>>, << <<"Error processing file: ">> \o message >>)
    /\ raised' = e
    /\ opened' = FALSE
    /\ NothingParsed
    /\ UNCHANGED written

\* The try block of main: the generator is constructed and parses the file
Process(a) ==
    IF Construct("CppSourceGenerator", {"enhance_existing"}) # None
    THEN /\ ProcessingFailed(Construct("CppSourceGenerator", {"enhance_existing"}),
                             <<UnexpectedKeyword("CppSourceGenerator",
                                                 "enhance_existing")>>)
         /\ UNCHANGED <<filename, method>>
    ELSE /\ filename' = a.input_file
         /\ method' = "parse_source"
         /\ IF ~Readable(a.input_file)
            THEN ProcessingFailed("PermissionError", PermissionDenied(a.input_file))
            ELSE MainParsed(a, parse_source(FileLines(a.input_file), None, None))

\* The checks of main before the try block: print(...) and sys.exit(1)
Rejected(printed) ==
    /\ Exit(<<1>>, printed)
    /\ UNCHANGED <<callvars, written>>
    /\ NothingParsed

\* except Exception as e: print(f"Error processing directory: {e}"); sys.exit(3)
DirectoryFailed(e, message) ==
    /\ Exit(<<3>>, << <<"Error processing directory: ">> \o message >>)
    /\ raised' = e
    /\ results' = <<>>
    /\ UNCHANGED <<filename, method, opened, written>>
    /\ NothingParsed

\* processor.print_results(results) after the call returned the state r,
\* and the return of main
DirectoryDone(r) ==
    /\ ApplyRun([r EXCEPT !.stdout = r.stdout \o print_results(r.results)])
    /\ exit_code' = <<>>

\* The state of a directory or project run of main
DirectoryArgs(a, names, dir_names) ==
    /\ args' = a
    /\ directory' = names
    /\ subdirs' = dir_names
    /\ output_dir' = a.output
    /\ dry_run' = a.dry_run

\* if args.project: results = processor.process_project(...), then
\* print_results; -p wins over -d
ProjectMode(a, dir_names) ==
    /\ DirectoryArgs(a, {}, dir_names)
    /\ root' = a.project
    /\ IF ProjectError(a.project) # <<>>
       THEN DirectoryFailed("ValueError", ProjectError(a.project))
       ELSE DirectoryDone(process_project(RunState, a.project, dir_names,
                                          a.output, a.dry_run))

\* else: results = processor.process_directory(...), then print_results
DirectoryMode(a, names) ==
    /\ DirectoryArgs(a, names, {})
    /\ root' = a.directory
    /\ IF DirectoryError(a.directory) # <<>>
       THEN DirectoryFailed("ValueError", DirectoryError(a.directory))
       ELSE DirectoryDone(process_directory(RunState, a.directory, names,
                                            a.output, a.dry_run))

\* What main finds at the paths of the command line
FilesAt(a) == IF a.directory = D_d THEN CliDirectories ELSE {{}}

DirsAt(a) == IF a.project = P_root THEN CliSubdirs ELSE {{}}

\* What a run of main leaves alone
MainUnchanged ==
    UNCHANGED <<objvars, loopvars, cpp_files, file_idx, assertions, coverage_points>>

\* main() on a command line with -p, from the parsed arguments to its
\* return or sys.exit
MainProject ==
    /\ caller = "idle"
    /\ caller' = "exited"
    /\ \E a \in DirectoryLines :
          /\ a.project # NoPath
          /\ \E dir_names \in DirsAt(a) : ProjectMode(a, dir_names)
    /\ MainUnchanged

\* main() on a command line with -d and without -p
MainDirectory ==
    /\ caller = "idle"
    /\ caller' = "exited"
    /\ \E a \in DirectoryLines :
          /\ a.project = NoPath
          /\ \E names \in FilesAt(a) : DirectoryMode(a, names)
    /\ MainUnchanged

\* main() on a command line without -d and -p
MainFile ==
    /\ caller = "idle"
    /\ caller' = "exited"
    /\ \E a \in SingleFileLines :
          /\ args' = a
          /\ NoDirectoryRun
          /\ IF a.input_file = NoPath
             THEN Rejected(<<<<"Input file, directory, or project root is required unless using --gui.">>,
                             <<"Use -f for single file, -d for directory, or -p for project root.">>>>)
             ELSE IF ~IsFile(a.input_file)
             THEN Rejected(<<<<"Input file '", a.input_file, "' does not exist.">>>>)
             ELSE IF suffix(a.input_file) \notin CPP_EXTENSIONS
             THEN Rejected(<<<<"Unsupported file type. Only C++ header and source files are supported.">>>>)
             ELSE Process(a)
    /\ MainUnchanged

\* main(), from the parsed arguments to its return or sys.exit
Main == MainFile \/ MainDirectory \/ MainProject

CliNext == Main

CliSpec == CliInit /\ [][CliNext]_vars

(***************************************************************************)
(* Coverage analysis: TestCaseAnalyzer.analyze_test_coverage called with   *)
(* a TestInfo holding any assertion list.                                  *)
(***************************************************************************)

\* Names giving six different coverage points, a second name for one of
\* the points and a name the table does not cover.
AssertionNames ==
    {"EXPECT_EQ", "EXPECT_NE", "EXPECT_TRUE", "EXPECT_FALSE", "REQUIRE",
     "REQUIRE_FALSE", "CHECK", "ASSERT_EQ"}

MaxAssertions == 3

\* The assertion lists analysed: up to MaxAssertions names, alone or after
\* four assertions that give four different points, and each key of the
\* table as the only assertion.
AssertionLists ==
    {front \o back :
        front \in {<<>>, <<"EXPECT_EQ", "EXPECT_NE", "EXPECT_TRUE", "EXPECT_FALSE">>},
        back \in SeqsUpTo(AssertionNames, MaxAssertions)}
    \cup {<<assertion_coverage[n].pattern>> : n \in 1..Len(assertion_coverage)}

AnalyzeCoverage ==
    /\ caller = "idle"
    /\ caller' = "returned"
    /\ \E a \in AssertionLists :
          /\ assertions' = a
          /\ coverage_points' = analyze_test_coverage(a)
    /\ UNCHANGED <<objvars, callvars, loopvars, current_class, current_namespace,
                   is_test_file, detected_framework, lines, output, root, directory,
                   subdirs, output_dir, dry_run, cpp_files, file_idx, results, written,
                   args, exit_code, stdout>>

CoverageNext == AnalyzeCoverage

CoverageSpec == BatchInit /\ [][CoverageNext]_vars

(***************************************************************************)
(* Properties.                                                             *)
(***************************************************************************)

Done == pc = "done"

Scanning == pc \in {"top", "class", "test"}

Range(s) == {s[k] : k \in 1..Len(s)}

\* a is b with some elements left out
RECURSIVE IsSubsequence(_, _)
IsSubsequence(a, b) ==
    IF a = <<>> THEN TRUE
    ELSE IF b = <<>> THEN FALSE
    ELSE IF Head(a) = Head(b) THEN IsSubsequence(Tail(a), Tail(b))
    ELSE IsSubsequence(a, Tail(b))

\* The steps of the pass that generated a comment block.
DocSteps == {k \in 1..Len(log) : log[k].doc # <<>>}

\* C1 -- Preservation: when a pass has ended, the input with its trailing
\* blank lines removed is a subsequence of the output, for all three
\* scanners and every kind of line.
C1_Preservation ==
    Done => IsSubsequence(TrimTrailingBlank(lines), output)

\* C2 -- Idempotence: the pass run on the first pass's output with the
\* default skip-existing policy generates no comment block.
C2_SecondPassInsertsNothing ==
    (Done /\ pass = 2 /\ ~enhance_existing) => DocSteps = {}

\* C3 -- Termination: every iteration of the top-level, class-body and
\* test-file loop strictly increases the line index and never moves it past
\* the end of the file, a pass that has not ended always has its next
\* iteration or its return to take, and every pass that has started ends.
C3_Termination ==
    /\ [][LoopStep => (i' > i /\ i' <= Len(lines) + 1)]_vars
    /\ [](Scanning => StepEnabled)
    /\ (Scanning ~> Done)

\* A pass has ended on a file holding a declaration that is never
\* terminated followed by a comment block that is never closed.
C3_Witness ==
    /\ Done
    /\ Len(lines) = 2 /\ lines[1] = L_add_open /\ lines[2] = L_doc_open
    /\ Len(log) > 0 /\ log[Len(log)].next = Len(lines) + 1

\* C4 -- Skip-existing: with the default policy an existing documentation
\* block is copied to the output unchanged and the step at the line that
\* follows the block generates no comment.
C4_SkipExisting ==
    ~enhance_existing =>
        \A a \in 1..Len(log) :
            log[a].branch = "existing" =>
                /\ SubSeq(output, log[a].out_at + 1, log[a].out_at + log[a].appended)
                     = SubSeq(lines, log[a].at, log[a].next - 1)
                /\ \A b \in 1..Len(log) :
                       log[b].at = log[a].next => log[b].doc = <<>>

\* The elements step a appended to the output.
AppendedBy(a) == SubSeq(output, log[a].out_at + 1, log[a].out_at + log[a].appended)

\* The input lines step a read.
ReadBy(a) == SubSeq(lines, log[a].at, log[a].next - 1)

\* An element that is a line of a comment block: its text begins, after
\* the indentation, with the opening, a continuation star or the closing.
IsCommentElement(e) ==
    LET t == lstrip(e) IN t # <<>> /\ t[1] \in {"/**", "*", "*/"}

\* C5 (as stated) -- Output composition: every output element but the final
\* newline is an input line or a line of a comment block, no separator.
C5_NoInsertedLines ==
    Done => \A k \in 1..(Len(output) - 1) :
                output[k] \in Range(lines) \/ IsCommentElement(output[k])

\* On step a the scanner matched something before which it puts a separator
\* when the output does not end with a blank element: a class opener, a
\* function outside a class body, an enum, a member variable, a namespace
\* opener or a test case.
SeparatedBefore(a) ==
    \/ log[a].branch \in {"class", "enum", "variable", "namespace", "testcase"}
    \/ log[a].branch = "function" /\ log[a].loop = "top"

\* On step a the scanner matched something after which it puts a separator:
\* a class opener, a function outside a class body, an enum, a member
\* variable, the line that ends a class body, a top-level line `}` read
\* while a class or namespace is current, or a test case.
SeparatedAfter(a) ==
    \/ log[a].branch \in {"class", "enum", "variable", "endclass", "close", "testcase"}
    \/ log[a].branch = "function" /\ log[a].loop = "top"

\* The output before step a is not empty and its last element is not blank.
NonBlankBefore(a) ==
    log[a].out_at > 0 /\ \E k \in 1..Len(output[log[a].out_at]) :
                             NotWs(output[log[a].out_at][k])

\* The step runs in the class body of the scanner of parse_source, which
\* stores an access marker line instead of copying it.
StoresMarkers(a) ==
    gen = "CppSourceGenerator" /\ method = "parse_source" /\ log[a].loop = "class"

\* The access marker lines read before step a.
MarkersBefore(a) ==
    {<<lines[log[b].at]>> : b \in {c \in 1..(a - 1) : log[c].branch = "access"}}

\* What step a appended is, in order: the separator before, a stored marker,
\* the generated block, the lines read and the separator after.
StepComposition(a) ==
    \E marker \in (IF StoresMarkers(a) /\ log[a].branch = "function"
                    THEN {<<>>} \cup MarkersBefore(a) ELSE {<<>>}) :
        AppendedBy(a)
          = (IF SeparatedBefore(a) /\ NonBlankBefore(a) THEN <<NL>> ELSE <<>>)
            \o marker
            \o log[a].doc
            \o (IF StoresMarkers(a) /\ log[a].branch = "access"
                THEN <<>> ELSE ReadBy(a))
            \o (IF SeparatedAfter(a) THEN <<NL>> ELSE <<>>)

\* The output o without its trailing blank elements, followed by '\n'.
IsFinishedFrom(o, finished) ==
    \E k \in 0..Len(o) :
        /\ finished = SubSeq(o, 1, k) \o <<NL>>
        /\ k = 0 \/ \E j \in 1..Len(o[k]) : NotWs(o[k][j])
        /\ \A m \in (k + 1)..Len(o) : \A j \in 1..Len(o[m]) : IsWs(o[m][j])

\* C5 (amended) -- Output composition: every output element is an input
\* line copied verbatim, an element of a generated comment block or the
\* blank separator element '\n'.  What one step of the scanner appends is,
\* in this order: a separator, exactly when the scanner matched on this step
\* a class opener, a function outside a class body, an enum, a member
\* variable, a namespace opener or a test case (in a test file it matches
\* test cases only) and the output so far ends with a non-blank element; a
\* stored access marker line, only before a member function in the class
\* body of CppSourceGenerator.parse_source; the generated comment block, if
\* any; the lines the step read (none for an access marker in the class
\* body of CppSourceGenerator.parse_source, which stores the line); and a
\* separator, exactly when the scanner matched on this step a class opener,
\* a function outside a class body, an enum, a member variable, the line
\* that ends a class body, a top-level line `}` read while a class or
\* namespace is current, or a test case.  A member function in a class body
\* gets no separator before its block or after its declaration.  The return
\* removes the trailing blank elements and appends one '\n'.
C5_Composition ==
    /\ [](\A k \in 1..Len(output) :
            output[k] \in Range(lines) \/ IsCommentElement(output[k]) \/ output[k] = NL)
    /\ [](Scanning => \A a \in 1..Len(log) : StepComposition(a))
    /\ [][(pc # "done" /\ pc' = "done") => IsFinishedFrom(output, output')]_vars

\* A pass is scanning a class in which a member function that follows a
\* non-blank output element got its comment block without a separator
\* before or after, and a member variable got a separator that is no input
\* line before its block and another after its declaration.
C5_Witness ==
    /\ Scanning /\ pass = 1
    /\ NL \notin Range(lines)
    /\ \E a \in 1..Len(log) :
          /\ log[a].branch = "function" /\ log[a].loop = "class"
          /\ log[a].doc # <<>> /\ NonBlankBefore(a)
          /\ AppendedBy(a) = log[a].doc \o ReadBy(a)
    /\ \E a \in 1..Len(log) :
          /\ log[a].branch = "variable" /\ log[a].doc # <<>>
          /\ AppendedBy(a) = <<NL>> \o log[a].doc \o ReadBy(a) \o <<NL>>

\* C6 -- End of file: the output is never empty, an empty input gives the
\* one element '\n', and the joined text ends with one newline directly
\* after the last non-blank line.
C6_EndOfFile ==
    Done =>
        /\ output # <<>>
        /\ (lines = <<>> => output = <<NL>>)
        /\ LET text == ReadLines(Flatten(output))
               last == text[Len(text)]
           IN  /\ last[Len(last)] = "\n"
               /\ (Len(text) > 1 => strip(last) # <<>>)

\* e is one line that starts with the indentation followed by the text of
\* a comment line.
IsIndentedCommentLine(e, indent) ==
    LET n == Len(indent)
    IN  /\ Len(e) > n + 1
        /\ SubSeq(e, 1, n) = indent
        /\ \/ e[n + 1] = "/**"
           \/ e[n + 1] = " " /\ e[n + 2] \in {"*", "*/"}
        /\ count(e, "\n") = 1
        /\ e[Len(e)] = "\n"

\* C7 -- Indentation fidelity: every element of every generated comment
\* block is a single line that begins with the leading whitespace of the
\* first line of the declaration it precedes.
C7_IndentationFidelity ==
    \A k \in DocSteps :
        \A d \in 1..Len(log[k].doc) :
            IsIndentedCommentLine(log[k].doc[d], _get_indent(lines[log[k].at]))

\* A class/struct line that ends with ';' and holds no '{'.
IsForwardDeclaration(line) ==
    LET st == strip(line)
    IN  /\ ClassHeadMatch(st).ok
        /\ st[Len(st)] = ";"
        /\ ~Has(st, "{")

\* C8 -- Forward declarations: the step at a forward declaration never
\* generates a class comment, never enters the class body and never sets
\* current_class, whatever lines follow.
C8_ForwardDeclaration ==
    \A k \in 1..Len(log) :
        (log[k].loop = "top" /\ IsForwardDeclaration(lines[log[k].at])) =>
            /\ log[k].branch # "class"
            /\ log[k].doc = <<>>

\* The brief line of a comment block with the given indentation.
BriefElement(indent, words) ==
    indent \o <<" ", "*", " ", "@", "brief", " ">> \o words \o NL

\* The brief C9 gives a special member of class Foo, by its declaration.
SpecialMemberBrief(line) ==
    CASE line = L_ctor -> <<"Constructor", " ", "for", " ", "Foo">>
      [] line = L_dtor -> <<"Destructor", " ", "for", " ", "Foo">>
      [] line \in {L_copy_unnamed, L_copy_named} ->
            <<"Copy", " ", "constructor", " ", "for", " ", "Foo">>
      [] line \in {L_move_unnamed, L_move_named} ->
            <<"Move", " ", "constructor", " ", "for", " ", "Foo">>

SpecialMemberLines ==
    {L_ctor, L_dtor, L_copy_unnamed, L_copy_named, L_move_unnamed, L_move_named}

\* C9 -- Special members: in the body of class Foo (outside member function
\* bodies) each of Foo(), ~Foo(), Foo(const Foo&) and Foo(Foo&&), with or
\* without a parameter name, gets a comment with its own brief line; a
\* match is never both a copy and a move constructor, and either needs the
\* class name and exactly one parameter.
C9_SpecialMembers ==
    \A k \in 1..Len(log) :
        (/\ log[k].loop = "class"
         /\ log[k].branch # "body"
         /\ log[k].current_class = "Foo"
         /\ lines[log[k].at] \in SpecialMemberLines) =>
            LET fm == _match_function(lines, log[k].at, log[k].current_class)
            IN  /\ log[k].branch = "function"
                /\ Len(log[k].doc) > 1
                /\ log[k].doc[2] = BriefElement(_get_indent(lines[log[k].at]),
                                                SpecialMemberBrief(lines[log[k].at]))
                /\ fm.ok
                /\ ~(fm.is_copy_ctor /\ fm.is_move_ctor)
                /\ (fm.is_copy_ctor \/ fm.is_move_ctor) =>
                       (fm.name = <<"Foo">> /\ Len(fm.params) = 1)

\* The words that name a type in the declarations of the input files.
TypeWords == {"int", "unsigned", "void", "const", "Foo"}

\* The name of a parameter: its last lexeme, when that is an identifier
\* and no type word; <<>> for a parameter given only by its type.
ParamName(p) ==
    IF p # <<>> /\ IsIdent(p[Len(p)]) /\ p[Len(p)] \notin TypeWords
    THEN <<p[Len(p)]>> ELSE <<>>

\* The names of the named parameters of a one-line declaration, in order.
NamedParams(line) ==
    LET a  == IndexOf(line, "(")
        b  == Last(line, IsRParen)
        ps == StripEach(SplitComma(SubSeq(line, a + 1, b - 1)))
    IN  NonEmptyOnly([k \in 1..Len(ps) |-> ParamName(ps[k])])

IsParamElement(e) ==
    \E k \in 1..(Len(e) - 1) : e[k] = "@" /\ e[k + 1] = "param"

\* The text after '@param ' of every @param element of a block, in order.
RECURSIVE ParamNamesOf(_)
ParamNamesOf(doc) ==
    IF doc = <<>> THEN <<>>
    ELSE (IF IsParamElement(Head(doc))
          THEN LET e == Head(doc)
                   k == CHOOSE k \in 1..(Len(e) - 1) : e[k] = "@" /\ e[k + 1] = "param"
               IN  << SubSeq(e, k + 3, Len(e) - 1) >>
          ELSE <<>>)
         \o ParamNamesOf(Tail(doc))

\* The one-line function declarations of the input files.
DeclarationLines ==
    {L_add, L_f_open, L_g_indented, L_member_f_open} \cup SpecialMemberLines

\* C10 -- Parameter lines: the comment of a matched one-line declaration
\* holds one '@param <name>' line per named parameter, in declaration
\* order, and none for a parameter given only by its type.
C10_ParameterLines ==
    \A k \in 1..Len(log) :
        (/\ log[k].branch = "function"
         /\ log[k].next = log[k].at + 1
         /\ lines[log[k].at] \in DeclarationLines) =>
            ParamNamesOf(log[k].doc) = NamedParams(lines[log[k].at])

IsThrowsElement(e) ==
    \E k \in 1..(Len(e) - 1) : e[k] = "@" /\ e[k + 1] = "throws"

\* The text after '@throws ' of every @throws element of a block, in order.
RECURSIVE ThrowsOf(_)
ThrowsOf(doc) ==
    IF doc = <<>> THEN <<>>
    ELSE (IF IsThrowsElement(Head(doc))
          THEN LET e == Head(doc)
                   k == CHOOSE k \in 1..(Len(e) - 1) : e[k] = "@" /\ e[k + 1] = "throws"
               IN  << SubSeq(e, k + 3, Len(e) - 1) >>
          ELSE <<>>)
         \o ThrowsOf(Tail(doc))

\* The types listed between the parentheses of the throw(...) specification
\* of a one-line declaration, in order.
DeclaredThrowTypes(line) ==
    LET a == IndexOf(line, "throw")
        b == First(line, IsRParen, a)
        listed == SelectSeq(SubSeq(line, a + 2, b - 1), IsWord)
    IN  [k \in 1..Len(listed) |-> <<listed[k]>>]

GenericThrows == <<"std", ":", ":", "exception", " ", "on", " ", "error">>

\* The @throws texts the declaration calls for: its listed types when it
\* has a throw(...) specification, else the generic text unless it is
\* declared noexcept.
ExpectedThrows(line) ==
    IF Has(line, "throw") THEN DeclaredThrowTypes(line)
    ELSE IF Has(line, "noexcept") THEN <<>>
    ELSE <<GenericThrows>>

\* C11 -- Exception lines: the comment of a matched one-line function
\* declaration holds one '@throws <type>' line per type listed in its
\* throw(...) specification; without such a specification it holds the one
\* generic '@throws std::exception on error' line exactly when the function
\* is not declared noexcept.
C11_ExceptionLines ==
    \A k \in 1..Len(log) :
        (/\ log[k].branch = "function"
         /\ log[k].next = log[k].at + 1
         /\ lines[log[k].at] \in DeclarationLines \cup ExceptionLib) =>
            ThrowsOf(log[k].doc) = ExpectedThrows(lines[log[k].at])

\* The include lines that identify each dialect, and the dialects in the
\* priority order of the detection.
IncludeSignature(framework) ==
    CASE framework = "gtest" -> {L_include_gtest}
      [] framework = "catch2" -> {L_include_catch2}
      [] framework = "doctest" -> {L_include_doctest}
      [] framework = "boost" -> {L_include_boost, L_include_boost_slashes}
      [] framework = "cppunit" -> {L_include_cppunit}

DialectPriority == <<"gtest", "catch2", "doctest", "boost", "cppunit">>

\* The dialect tag C12 gives a file: the first dialect, in priority order,
\* whose include line is in the file; without any, the dialect of a test
\* macro in the file; else None.
ExpectedFramework(file) ==
    LET Included(n) == IncludeSignature(DialectPriority[n]) \cap Range(file) # {}
        n == FirstIndex(1, Len(DialectPriority), Included)
    IN  IF n <= Len(DialectPriority) THEN DialectPriority[n]
        ELSE IF L_test \in Range(file) THEN "gtest"
        ELSE None

\* C12 -- Framework detection: once parse_source has read a file,
\* detected_framework is the tag of the first include signature present in
\* the priority order gtest, catch2, doctest, boost, cppunit; the tag of a
\* macro pattern only when no include signature is present; None otherwise.
C12_FrameworkDetection ==
    (method = "parse_source" /\ raised = None /\ (Scanning \/ Done)) =>
        detected_framework = ExpectedFramework(lines)

\* The allowlists as C13 states them.
AllowedExtensions(called) ==
    IF called = "parse_header" THEN {"h", "hpp", "hh", "hxx"}
    ELSE {"h", "hpp", "hh", "hxx", "cpp", "cc", "cxx", "c++"}

\* The last call made is a call of parse_header or parse_source.
ParseCall == method \in {"parse_header", "parse_source"}

\* C13 -- Unsupported extension: a parse_header / parse_source call with a
\* file name whose extension is outside the called method's allowlist raises
\* ValueError; a call that raises ValueError has not opened the file, has
\* scanned nothing and leaves current_class, current_namespace,
\* is_test_file and detected_framework as they were.
C13_UnsupportedExtension ==
    [][/\ (ParseCall' /\ Extension(filename') \notin AllowedExtensions(method')) =>
              raised' = "ValueError"
       /\ raised' = "ValueError" =>
              /\ ParseCall'
              /\ Extension(filename') \notin AllowedExtensions(method')
              /\ ~opened'
              /\ UNCHANGED <<current_class, current_namespace, is_test_file,
                             detected_framework>>
              /\ UNCHANGED <<pc, lines, output, i, log>>]_vars

\* A rejected call was made on a generator whose earlier pass left state
\* behind.
C13_Witness ==
    /\ raised = "ValueError" /\ ~opened
    /\ pc = "done"
    /\ current_class # None \/ is_test_file

\* The files of the list the directory run has gone through.
FilesHandled ==
    {cpp_files[k] : k \in 1..(IF caller = "returned" THEN Len(cpp_files)
                                ELSE file_idx - 1)}

\* Reading the file, or writing its result, raises in this run.
FileFails(file_path) ==
    \/ ~Readable(file_path)
    \/ ~dry_run /\ ~Writable(OutPath(output_dir, file_path, root))

\* C14 -- Batch failure isolation: during and after a run of
\* process_directory the results hold exactly one entry for every file
\* gone through, which is every file found when the call has returned; the
\* entry is (False, 'Error: ...') exactly for the files whose reading or
\* writing raised, and every other file of a run that is no dry run has
\* been written, whatever happened to the files before it.
C14_FailureIsolation ==
    (caller \in {"loop", "returned"} /\ cpp_files # <<>>) =>
        /\ {r[1] : r \in Range(results)} = FilesHandled
        /\ Len(results) = Cardinality(FilesHandled)
        /\ caller = "returned" => FilesHandled = Range(cpp_files)
        /\ Range(cpp_files) =
              {PathIn(root, f) : f \in {g \in directory : suffix(g) \in CPP_EXTENSIONS}}
        /\ \A r \in Range(results) :
              /\ r[2] = ~FileFails(r[1])
              /\ ~r[2] => r[3][1] = "Error: "
              /\ r[2] => r[3][1] # "Error: "
        /\ \A f \in FilesHandled :
              (~FileFails(f) /\ ~dry_run) =>
                  \E w \in written : w[1] = OutPath(output_dir, f, root)
        /\ \A w \in written :
              \E f \in FilesHandled :
                  ~FileFails(f) /\ w[1] = OutPath(output_dir, f, root)

\* A run has returned in which a file that could not be read and a file
\* that could not be written were each followed by a file that was
\* processed and written.
C14_Witness ==
    /\ caller = "returned"
    /\ cpp_files = <<PathIn(D_d, N_a_cpp), PathIn(D_d, N_c_cpp), PathIn(D_d, N_d_cpp),
                     PathIn(D_d, N_e_cpp)>>
    /\ ~dry_run /\ output_dir = NoPath
    /\ results[2] = <<PathIn(D_d, N_c_cpp), FALSE,
                      <<"Error: ">> \o PermissionDenied(PathIn(D_d, N_c_cpp))>>
    /\ results[3] = <<PathIn(D_d, N_d_cpp), FALSE,
                      <<"Error: ">> \o PermissionDenied(PathIn(D_d, N_d_cpp))>>
    /\ results[4] = <<PathIn(D_d, N_e_cpp), TRUE,
                      <<"Processed successfully", " (Test file: ", "gtest", ")">>>>
    /\ \E w \in written : w[1] = PathIn(D_d, N_e_cpp)

\* C15 -- Batch independence: the output the directory run produced for
\* the file it parsed last equals the output of a newly constructed
\* generator (no current class, no current namespace) for the same file,
\* whatever files were processed before it.
C15_BatchIndependence ==
    (caller \in {"loop", "returned"} /\ opened) =>
        output = parse_source(lines, None, None).output

\* The command line names an existing file with a supported extension and
\* asks for no dry run.
SingleFileRun ==
    /\ caller = "exited"
    /\ args.input_file # NoPath
    /\ IsFile(args.input_file)
    /\ suffix(args.input_file) \in CPP_EXTENSIONS
    /\ ~args.dry_run

\* C16 -- Single-file success: main with -f on an existing file with a
\* supported extension and no --dry-run ends with exit code 3 only when
\* the file cannot be processed, and otherwise, when the output path can
\* be written, it writes the transformed file to the -o path or else to
\* the input path, prints 'Doxygen comments added to <path>' and exits
\* with no non-zero code.
C16_SingleFileSuccess ==
    SingleFileRun =>
        LET output_file == IF args.output # NoPath THEN args.output ELSE args.input_file
        IN  /\ exit_code = <<3>> => ~Readable(args.input_file)
            /\ (Readable(args.input_file) /\ Writable(output_file)) =>
                  /\ exit_code = <<>>
                  /\ <<output_file,
                       parse_source(FileLines(args.input_file), None, None).output>>
                        \in written
                  /\ <<"Doxygen comments added to ", output_file>> \in Range(stdout)

\* current_class and current_namespace when the pass began (the values are
\* not read on a file without lines).
EntryClass == IF log = <<>> THEN None ELSE log[1].current_class

EntryNamespace == IF log = <<>> THEN None ELSE log[1].current_namespace

\* C17 -- Enhance mode is pass-through: the output of a pass of
\* parse_header that has ended equals the output parse_header gives for the
\* same lines with the opposite value of enhance_existing, and with the
\* flag set every existing documentation block is emitted unchanged at the
\* position the scanner had reached.
C17_EnhancePassThrough ==
    (method = "parse_header" /\ raised = None) =>
        /\ Done => output = parse_header(lines, ~enhance_existing, EntryClass,
                                         EntryNamespace).output
        /\ enhance_existing =>
              \A a \in 1..Len(log) :
                  log[a].branch = "existing" =>
                      /\ log[a].doc = <<>>
                      /\ SubSeq(output, log[a].out_at + 1,
                                log[a].out_at + log[a].appended)
                           = SubSeq(lines, log[a].at, log[a].next - 1)

\* A pass with enhance_existing set has ended on a file that holds a
\* documentation block of two lines, and the block was captured in one
\* step.
C17_Witness ==
    /\ Done /\ pass = 1
    /\ gen = "HeaderDoxygenGenerator" /\ enhance_existing
    /\ lines = <<L_doc_open, L_doc_close>>
    /\ \E a \in 1..Len(log) : log[a].branch = "existing" /\ log[a].appended = 2

\* The coverage points the assertions of the list give, and the position of
\* the first assertion that gives a point.
PointsCovered ==
    {CoverageOf(assertions[n])[1] :
        n \in {m \in 1..Len(assertions) : CoverageOf(assertions[m]) # <<>>}}

FirstOccurrence(point) ==
    CHOOSE n \in 1..Len(assertions) :
        /\ CoverageOf(assertions[n]) = <<point>>
        /\ \A m \in 1..(n - 1) : CoverageOf(assertions[m]) # <<point>>

\* C18 -- Coverage points are bounded and duplicate-free: the list
\* analyze_test_coverage returned has at most 5 entries, repeats none, holds
\* only points its assertions give, in the order of the first assertion
\* giving each, and is the beginning of the full list of distinct points:
\* it leaves a point out only when it holds 5 and the point first occurs
\* after all of them.
C18_CoveragePoints ==
    caller = "returned" =>
        /\ Len(coverage_points) <= 5
        /\ \A j, k \in 1..Len(coverage_points) :
              j # k => coverage_points[j] # coverage_points[k]
        /\ Range(coverage_points) \subseteq PointsCovered
        /\ \A j, k \in 1..Len(coverage_points) :
              j < k => FirstOccurrence(coverage_points[j])
                          < FirstOccurrence(coverage_points[k])
        /\ \A p \in PointsCovered \ Range(coverage_points) :
              /\ Len(coverage_points) = 5
              /\ \A k \in 1..Len(coverage_points) :
                    FirstOccurrence(coverage_points[k]) < FirstOccurrence(p)

\* The analysis has returned for a list of six assertions giving six
\* different points: the sixth was cut off.
C18_Witness ==
    /\ caller = "returned"
    /\ assertions = <<"EXPECT_EQ", "EXPECT_NE", "EXPECT_TRUE", "EXPECT_FALSE",
                      "REQUIRE", "CHECK">>
    /\ Len(coverage_points) = 5
    /\ coverage_points[5] = <<"Covers", " ", "required", " ", "conditions">>

\* Step j of the pass matched a function whose declaration holds a `{`.
IsDefinitionStep(j) ==
    /\ log[j].branch = "function"
    /\ log[j].doc # <<>>
    /\ HasBraceIn(lines, log[j].at, log[j].next - 1)

\* Line k lies between the `{` of the definition matched in step j and its
\* matching `}`: the braces opened from the definition on are still open
\* after every line up to k and are closed by a later line.
InBodyOf(j, k) ==
    /\ k >= log[j].next
    /\ \A e \in (log[j].next - 1)..k : BraceSum(lines, log[j].at, e) > 0
    /\ \E c \in (k + 1)..Len(lines) : BraceSum(lines, log[j].at, c) = 0

\* C19 -- Function bodies are opaque: no step that starts at a line lying
\* between the opening `{` of a recognized function definition and its
\* matching `}` generates a comment, for member functions and for
\* definitions at top level.
C19_OpaqueBodies ==
    \A j, b \in 1..Len(log) :
        (IsDefinitionStep(j) /\ InBodyOf(j, log[b].at)) => log[b].doc = <<>>

\* Step j matched a member function whose declaration holds a `{`.
IsMemberDefinitionStep(j) == IsDefinitionStep(j) /\ log[j].loop = "class"

\* The braces opened by the definition matched in step j are still open
\* after every line from the end of its declaration to the line before k:
\* line k is a body line or the line holding the matching `}`.
BodyOpenBefore(j, k) ==
    /\ k >= log[j].next
    /\ \A e \in (log[j].next - 1)..(k - 1) : BraceSum(lines, log[j].at, e) > 0

\* Line k is the first line after the matching `}` of the definition
\* matched in step j.
FollowsBodyOf(j, k) ==
    /\ k >= log[j].next
    /\ BraceSum(lines, log[j].at, k - 1) = 0
    /\ \A e \in (log[j].next - 1)..(k - 2) : BraceSum(lines, log[j].at, e) > 0

\* C20 -- In-body state ends at the matching brace: inside a class the
\* scanner is in the inside-function-body state exactly when its current
\* line is a body line, or the line of the matching `}`, of a member
\* function definition matched before (never when `{` and `}` are both on
\* the declaration line); the step at the first line after the body
\* comments a member declaration and recognizes the class's closing line.
C20_InBodyEndsAtBrace ==
    /\ pc = "class" =>
          (in_function_body > 0 <=>
              \E j \in 1..Len(log) : IsMemberDefinitionStep(j) /\ BodyOpenBefore(j, i))
    /\ \A j, b \in 1..Len(log) :
          (IsMemberDefinitionStep(j) /\ FollowsBodyOf(j, log[b].at)) =>
              /\ lines[log[b].at] = L_member_x => log[b].doc # <<>>
              /\ lines[log[b].at] = L_class_end => log[b].branch = "endclass"

\* Step j recognized a class or struct opener.
IsClassOpenerStep(j) == log[j].loop = "top" /\ log[j].branch = "class"

\* The braces of the class opened in step j have not balanced on any line
\* from the last line of its opener to the line before k.
ClassOpenBefore(j, k) ==
    /\ k >= log[j].next
    /\ \A e \in (log[j].next - 1)..(k - 1) : BraceSum(lines, log[j].at, e) > 0

\* Every closing brace of the file closes a brace opened before it, and none
\* stays open.
BracesBalance ==
    /\ BraceSum(lines, 1, Len(lines)) = 0
    /\ \A e \in 1..Len(lines) : BraceSum(lines, 1, e) >= 0

\* C21 -- Class-body exit: at every point of a pass the scanner holds a
\* current class exactly when the braces of a class opener recognized
\* before, counted from the opener line on, have not yet balanced; a pass
\* that has ended on a file whose braces balance leaves current_class None.
C21_ClassBodyExit ==
    pass = 1 =>
        /\ pc \in {"top", "class"} =>
              (current_class # None <=>
                  \E j \in 1..Len(log) : IsClassOpenerStep(j) /\ ClassOpenBefore(j, i))
        /\ (Done /\ BracesBalance) => current_class = None

\* C22 -- The inside-function-body counter is never negative: in every
\* state of the class-body loop in_function_body >= 0.
C22_BodyCounterNonNegative ==
    pc = "class" => in_function_body >= 0

\* Step a of the class-body loop read an access marker line and the next
\* step gave a member declaration a synthesized comment.
IsMarkedMemberStep(a) ==
    /\ a + 1 <= Len(log)
    /\ log[a].loop = "class" /\ log[a].branch = "access"
    /\ log[a + 1].loop = "class"
    /\ log[a + 1].branch \in {"function", "variable"}
    /\ log[a + 1].doc # <<>>

\* The output holds the element m, directly followed by the elements of
\* doc and then by the element decl.
MarkerThenCommentThenDecl(m, doc, decl) ==
    \E p \in 1..Len(output) :
        /\ output[p] = m
        /\ p + Len(doc) + 1 <= Len(output)
        /\ SubSeq(output, p + 1, p + Len(doc)) = doc
        /\ output[p + Len(doc) + 1] = decl

\* C23 -- Access-marker placement: when an access marker line of a class
\* body is followed by a member declaration that receives a synthesized
\* comment, the output holds the marker line exactly once, and the marker is
\* directly followed by the comment block and then by the declaration.
C23_AccessMarkerPlacement ==
    Scanning =>
        \A a \in 1..Len(log) :
            IsMarkedMemberStep(a) =>
                /\ Cardinality({p \in 1..Len(output) : output[p] = lines[log[a].at]})
                     = Cardinality({q \in 1..log[a].at : lines[q] = lines[log[a].at]})
                /\ MarkerThenCommentThenDecl(lines[log[a].at], log[a + 1].doc,
                                             lines[log[a + 1].at])

\* Line e is the first line at or after s that holds one of the lexemes of
\* terminators.
FirstTerminatorLine(s, e, terminators) ==
    /\ s <= e /\ e <= Len(lines)
    /\ \E c \in terminators : Has(lines[e], c)
    /\ \A k \in s..(e - 1) : \A c \in terminators : ~Has(lines[k], c)

NoTerminatorFrom(s, terminators) ==
    \A k \in s..Len(lines) : \A c \in terminators : ~Has(lines[k], c)

\* The lexemes of lines s..e of the file, in order.
RECURSIVE LinesText(_, _)
LinesText(s, e) == IF e < s THEN <<>> ELSE LinesText(s, e - 1) \o lines[e]

\* The lexemes of a text that are not whitespace.
NonBlankLexemes(text) == SelectSeq(text, NotWs)

\* C24 -- Matcher end index is in range: for every file a pass has begun on,
\* every start line s of it and with or without a current class, a match of
\* _match_function or _match_variable ends on a line e of the file with
\* s <= e, e is the first line from s on that holds the terminator (';' or
\* '{' for functions, ';' for variables), the declaration is cut from the
\* join of exactly the lines s..e (it is the cut of the stripped lines s..e
\* joined by single spaces, and its lexemes other than whitespace are those
\* of lines s..e before the terminator), and without a terminator up to the
\* end of the file there is no match.  A step that documents a function or
\* a member variable continues after that line.
C24_MatcherEndInRange ==
    /\ (Scanning /\ log = <<>>) =>
        \A s \in 1..Len(lines) : \A cls \in {None, "Foo"} :
          LET f == _match_function(lines, s, cls)
              v == _match_variable(lines, s)
          IN  /\ f.ok => /\ FirstTerminatorLine(s, f.end_idx, {";", "{"})
                         /\ f.full_decl = CutDecl(JoinFunction(lines, s, f.end_idx))
                         /\ NonBlankLexemes(f.full_decl)
                              = NonBlankLexemes(CutDecl(LinesText(s, f.end_idx)))
              /\ NoTerminatorFrom(s, {";", "{"}) => ~f.ok
              /\ v.ok => /\ FirstTerminatorLine(s, v.end_idx, {";"})
                         /\ v.full_decl
                              = CutAtSemicolon(JoinVariable(lines, s, v.end_idx))
                         /\ NonBlankLexemes(v.full_decl)
                              = NonBlankLexemes(CutAtSemicolon(LinesText(s, v.end_idx)))
              /\ NoTerminatorFrom(s, {";"}) => ~v.ok
    /\ \A a \in 1..Len(log) :
          /\ (log[a].branch = "function" /\ log[a].loop \in {"top", "class"}) =>
                FirstTerminatorLine(log[a].at, log[a].next - 1, {";", "{"})
          /\ log[a].branch = "variable" =>
                FirstTerminatorLine(log[a].at, log[a].next - 1, {";"})

\* A step has documented a function whose declaration spans two lines and
\* a step of the same pass has documented a member variable whose
\* declaration spans two lines.
C24_Witness ==
    /\ \E a \in 1..Len(log) :
        /\ log[a].branch = "function" /\ log[a].doc # <<>>
        /\ log[a].next = log[a].at + 2
    /\ \E a \in 1..Len(log) :
        /\ log[a].branch = "variable" /\ log[a].doc # <<>>
        /\ log[a].next = log[a].at + 2
        /\ _match_variable(lines, log[a].at).ok
        /\ _match_variable(lines, log[a].at).end_idx = log[a].at + 1

\* Line e is the first line at or after b at which the count of `{` minus
\* `}` from line b on is zero.
FirstBalancedLine(b, e) ==
    /\ b <= e /\ e <= Len(lines)
    /\ BraceSum(lines, b, e) = 0
    /\ \A k \in b..(e - 1) : BraceSum(lines, b, k) # 0

\* C25 -- Test-body location: for every file a pass has begun on and every
\* start line s, _find_test_body returns lines body_start <= body_end of the
\* file with s <= body_start, body_start is the first line from s on that
\* holds `{` and body_end the first line from body_start on at which the
\* running brace count is back to zero; when no line from s on holds `{` it
\* returns (s, s).
C25_TestBodyLocation ==
    (Scanning /\ log = <<>>) =>
        \A s \in 1..Len(lines) :
            LET r == _find_test_body(lines, s)
            IN  IF \E k \in s..Len(lines) : HasOpenBrace(lines[k])
                THEN /\ FirstTerminatorLine(s, r.body_start, {"{"})
                     /\ FirstBalancedLine(r.body_start, r.body_end)
                ELSE r = [body_start |-> s, body_end |-> s]

\* The lexemes of line l between the `(` that follows `operator=` and the
\* next `)`, without surrounding whitespace; <<"?">> when l declares no
\* operator=.
AssignmentParameter(l) ==
    IF \E k \in 1..(Len(l) - 2) : l[k] = "operator" /\ l[k+1] = "=" /\ l[k+2] = "("
    THEN LET k == CHOOSE k \in 1..(Len(l) - 2) :
                      l[k] = "operator" /\ l[k+1] = "=" /\ l[k+2] = "("
         IN  strip(SubSeq(l, k + 3, First(l, IsRParen, k + 3) - 1))
    ELSE <<"?">>

\* doc holds a brief line with the words of kind ("Copy" or "Move")
\* "assignment operator for" cls.
HasAssignmentBrief(doc, kind, cls) ==
    \E e \in 1..Len(doc) :
        IsSubsequence(<<"@", "brief", " ", kind, " ", "assignment", " ", "operator",
                        " ", "for", " ", cls, "\n">>, doc[e])

\* C26 -- Assignment operators: in class Foo a member declaration of
\* operator= with the parameter `const Foo&` is documented with the brief
\* 'Copy assignment operator for Foo', one with the parameter `Foo&&` with
\* 'Move assignment operator for Foo', whatever the return type and the
\* other qualifiers, and every other operator= declaration gets no comment.
C26_AssignmentOperators ==
    \A a \in 1..Len(log) :
        (log[a].loop = "class" /\ log[a].current_class = "Foo"
           /\ AssignmentParameter(lines[log[a].at]) # <<"?">>) =>
            LET p == AssignmentParameter(lines[log[a].at])
            IN  IF p = <<"const", " ", "Foo", "&">>
                THEN HasAssignmentBrief(log[a].doc, "Copy", "Foo")
                ELSE IF p = <<"Foo", "&", "&">>
                THEN HasAssignmentBrief(log[a].doc, "Move", "Foo")
                ELSE log[a].doc = <<>>

\* C27 -- Variables with initializers: the step of the class-body loop at
\* the member `    int x = 0;` takes the variable branch, continues on the
\* next line and generates the comment that the variable matcher and the
\* comment synthesizer give for `    int x;`.
C27_InitializedMember ==
    \A a \in 1..Len(log) :
        (log[a].loop = "class"
           /\ log[a].at = 2 /\ lines[1] = L_class_Foo
           /\ lines[log[a].at] = L_member_x_init) =>
            /\ log[a].branch = "variable"
            /\ log[a].next = log[a].at + 1
            /\ log[a].doc =
                 _generate_variable_comment(_match_variable(<<L_member_x>>, 1), <<"    ">>)

\* No existing comment block ends directly before line k.
NoCommentBefore(k) ==
    \A b \in 1..Len(log) : ~(log[b].branch = "existing" /\ log[b].next = k)

\* C28 -- Top-level variables: the step of the main loop at the line
\* `int x;`, outside any class and not preceded by an existing comment
\* block, takes the variable branch, generates the variable comment and
\* continues on the next line.
C28_TopLevelVariable ==
    \A a \in 1..Len(log) :
        (log[a].loop = "top" /\ log[a].current_class = None
           /\ lines[log[a].at] = L_var_x /\ NoCommentBefore(log[a].at)) =>
            /\ log[a].branch = "variable"
            /\ log[a].next = log[a].at + 1
            /\ log[a].doc = _generate_variable_comment(_match_variable(<<L_var_x>>, 1), <<>>)

\* The point the table entry n stands for.
PointOfEntry(n) == <<"Covers", " ">> \o assertion_coverage[n].description

\* C29 -- Coverage mapping: every assertion whose name is a key of the table
\* contributes the point of that key's entry (present in the returned list
\* unless the list is full), and assertions whose names contain no key
\* contribute nothing.
C29_CoverageMapping ==
    caller = "returned" =>
        /\ \A k \in 1..Len(assertions) : \A n \in 1..Len(assertion_coverage) :
              (assertions[k] = assertion_coverage[n].pattern
                 /\ Len(coverage_points) < MaxCoveragePoints) =>
                  \E j \in 1..Len(coverage_points) : coverage_points[j] = PointOfEntry(n)
        /\ (\A k \in 1..Len(assertions) : \A n \in 1..Len(assertion_coverage) :
               ~NameContains(assertions[k], assertion_coverage[n].pattern)) =>
               coverage_points = <<>>

\* The test-case macro names of a dialect.
DialectMacros(framework) ==
    CASE framework = "gtest" -> {"TEST", "TEST_F", "TEST_P", "TYPED_TEST", "TYPED_TEST_P"}
      [] framework = "catch2" -> {"TEST_CASE", "SCENARIO", "TEMPLATE_TEST_CASE"}
      [] framework = "doctest" -> {"TEST_CASE", "SCENARIO", "TEST_SUITE"}
      [] framework = "boost" -> {"BOOST_AUTO_TEST_CASE", "BOOST_FIXTURE_TEST_CASE",
                                 "BOOST_AUTO_TEST_SUITE"}
      [] OTHER -> {}

\* Line l holds a test-case macro of the dialect followed by `(`.
IsDialectMacroLine(l, framework) ==
    \E k \in 1..(Len(l) - 1) :
        l[k] \in DialectMacros(framework) /\ l[SkipWs(l, k + 1)] = "("

\* C30 -- Test-file path: after parse_source, is_test_file says whether a
\* framework was detected.  In a file recognized as a test file the steps
\* read the lines in order without a gap; a step generates a comment block
\* only at a line holding a test-case macro of the detected dialect and
\* places it directly before that line; every other step appends exactly
\* the lines it read (class, function and variable declarations included),
\* and the lines up to the last non-blank one are still in the returned
\* list, in order, among blank lines and comment-block lines only.
C30_TestFilePath ==
    /\ gen = "CppSourceGenerator" => (is_test_file <=> detected_framework # None)
    /\ (method = "parse_source" /\ pc = "test") =>
          /\ is_test_file
          /\ \A a \in 1..Len(log) :
                /\ log[a].loop = "test"
                /\ log[a].at = (IF a = 1 THEN 1 ELSE log[a - 1].next)
                /\ IF log[a].doc # <<>>
                   THEN /\ IsDialectMacroLine(lines[log[a].at], detected_framework)
                        /\ AppendedBy(a) \in
                             {sep \o log[a].doc \o ReadBy(a) \o <<NL>> : sep \in {<<>>, <<NL>>}}
                   ELSE AppendedBy(a) = ReadBy(a)
    /\ (method = "parse_source" /\ raised = None /\ Done /\ is_test_file) =>
          /\ IsSubsequence(TrimTrailingBlank(lines), output)
          /\ \A e \in 1..Len(output) :
                \/ output[e] \in Range(lines)
                \/ output[e] = NL
                \/ \E a \in 1..Len(log) : output[e] \in Range(log[a].doc)

\* A pass over a test file has ended after one step copied a class opener
\* without a comment and another documented a test case.
C30_Witness ==
    /\ method = "parse_source" /\ raised = None /\ Done /\ is_test_file
    /\ \E a, b \in 1..Len(log) :
          /\ log[a].branch = "regular" /\ lines[log[a].at] = L_class_Foo
          /\ log[b].branch = "testcase" /\ log[b].doc # <<>>
====
